---- MODULE Spec2Model ----
(***************************************************************************)
(* A model of the Cognito-to-Keycloak shim: the attribute/entity mappers,  *)
(* the user and group action handlers, the shared backend client and the   *)
(* backend identity store the handlers talk to.                            *)
(*                                                                         *)
(* Conventions.                                                            *)
(*  - An optional JavaScript property is a sequence of at most one value:  *)
(*    Absent is undefined, Some(v) is a defined value v.                   *)
(*  - An attribute name is the sequence of its tokens, so that             *)
(*    "custom:dept" is <<"custom:", "dept">> and "email" is <<"email">>;   *)
(*    the regular expression /^custom:/ then strips a leading token.       *)
(*  - Time is a tick counter; toISOString and toString are TLC's ToString  *)
(*    and their parsers are the inverse search over the bounded range.     *)
(*  - A handler runs atomically between two awaits on the backend; each    *)
(*    action below is one backend call together with the synchronous code  *)
(*    that follows it up to the next await.                                *)
(***************************************************************************)
EXTENDS Integers, Sequences, FiniteSets, TLC

VARIABLES
    kcUsers,          \* backend: user id -> UserRepresentation or NoEntity
    kcGroups,         \* backend: group id -> GroupRepresentation or NoEntity
    kcMembers,        \* backend: set of <<user id, group id>>
    nextUserId,       \* backend: next fresh user id
    nextGroupId,      \* backend: next fresh group id
    isAuthenticated,  \* client.ts: module-level flag
    realmName,        \* client.ts: keycloakClient's configured realm
    kcAccessToken,    \* client.ts: the time of the login whose token
                      \* keycloakClient holds, if any
    accessToken,      \* KeycloakAdminClient.accessToken (null is Absent)
    tokenExpiresAt,   \* KeycloakAdminClient.tokenExpiresAt
    clients,          \* getClientForRealm: realm name -> the client cached
    logins,           \* backend: the number of logins answered so far
    callers,          \* caller -> its call of a client function in flight
    clock,            \* wall clock, in ticks
    req,              \* slot -> the request in flight in that slot
    stage,            \* history: progress of the life-cycle scenario
    probe             \* the input and outputs of a pure-function evaluation

vars == <<kcUsers, kcGroups, kcMembers, nextUserId, nextGroupId,
          isAuthenticated, realmName, kcAccessToken, accessToken,
          tokenExpiresAt, clients, logins, callers, clock, req, stage, probe>>

backendVars == <<kcUsers, kcGroups, kcMembers, nextUserId, nextGroupId>>
clientVars == <<isAuthenticated, realmName, kcAccessToken>>
cacheVars == <<accessToken, tokenExpiresAt, clients, logins, callers>>
otherVars == <<clock, stage, probe, cacheVars>>

----------------------------------------------------------------------------
(* Bounds *)

MaxClock == 2
MaxUserIds == 2
MaxGroupIds == 2
MaxItems == 61

----------------------------------------------------------------------------
(* Optional values and JavaScript truthiness *)

Absent == <<>>
Some(v) == <<v>>
IsDefined(o) == o # Absent
Get(o) == o[1]

\* if (s) for an optional string: undefined and "" are falsy
TruthyStr(o) == IsDefined(o) /\ Get(o) # ""
\* if (b) for an optional boolean: undefined and false are falsy
TruthyBool(o) == IsDefined(o) /\ Get(o) = TRUE
\* if (n) for an optional number: undefined and 0 are falsy
TruthyNum(o) == IsDefined(o) /\ Get(o) # 0

\* Array.prototype.includes
Includes(seq, x) == \E i \in 1..Len(seq) : seq[i] = x

\* { ...a, ...b } on string-array maps
Spread(a, b) == [k \in (DOMAIN a) \cup (DOMAIN b) |->
                    IF k \in DOMAIN b THEN b[k] ELSE a[k]]

\* the map a without key k (delete a[k])
DeleteKey(a, k) == [j \in (DOMAIN a) \ {k} |-> a[j]]

EmptyMap == <<>>

----------------------------------------------------------------------------
(* Time *)

Ticks == 0..(MaxClock + 1)

\* Date.prototype.toISOString
toISOString(t) == ToString(t)

InvalidDate == -1

\* new Date(isoString)
parseDate(s) == IF \E t \in Ticks : ToString(t) = s
                THEN CHOOSE t \in Ticks : ToString(t) = s
                ELSE InvalidDate

----------------------------------------------------------------------------
(* Attribute names *)

CustomPrefix == "custom:"
Name(base) == <<base>>
Custom(base) == <<CustomPrefix, base>>

\* attr.Name.replace(/^custom:/, "")
StripCustom(name) == IF Len(name) > 0 /\ Head(name) = CustomPrefix
                     THEN Tail(name) ELSE name

\* `custom:${key}`
AddCustom(key) == <<CustomPrefix>> \o key

LastModifiedKey == Name("lastModifiedDate")

----------------------------------------------------------------------------
(* Attribute/entity mapper (utils.ts) *)

\* if (attr.Name) for an optional attribute name: undefined and "" are falsy
TruthyName(o) == IsDefined(o) /\ Get(o) # <<>>

RECURSIVE cognitoToKeycloakAttributesFrom(_, _)
cognitoToKeycloakAttributesFrom(list, result) ==
    IF list = <<>> THEN result
    ELSE LET attr == Head(list)
             next == IF TruthyName(attr.Name) /\ IsDefined(attr.Value)
                     THEN Spread(result,
                            [k \in {StripCustom(Get(attr.Name))} |-> <<Get(attr.Value)>>])
                     ELSE result
         IN cognitoToKeycloakAttributesFrom(Tail(list), next)

\* attributes: an optional AttributeType[]
cognitoToKeycloakAttributes(attributes) ==
    IF ~IsDefined(attributes) THEN EmptyMap
    ELSE cognitoToKeycloakAttributesFrom(Get(attributes), EmptyMap)

\* Object.entries(map) visits the keys in some fixed order
RECURSIVE KeysInOrder(_)
KeysInOrder(keys) ==
    IF keys = {} THEN <<>>
    ELSE LET k == CHOOSE x \in keys : TRUE
         IN <<k>> \o KeysInOrder(keys \ {k})

MappedKeys == {Name("email"), Name("firstName"), Name("lastName")}

RECURSIVE customAttributesFrom(_, _)
customAttributesFrom(keys, attrs) ==
    IF keys = <<>> THEN <<>>
    ELSE LET key == Head(keys)
             values == attrs[key]
             here == IF Len(values) > 0 /\ key \notin MappedKeys
                     THEN <<[Name |-> Some(AddCustom(key)), Value |-> Some(values[1])]>>
                     ELSE <<>>
         IN here \o customAttributesFrom(Tail(keys), attrs)

keycloakToCognitoAttributes(user) ==
    (IF TruthyStr(user.email)
       THEN <<[Name |-> Some(Name("email")), Value |-> user.email]>> ELSE <<>>)
    \o (IF IsDefined(user.emailVerified)
       THEN <<[Name |-> Some(Name("email_verified")),
               Value |-> Some(IF Get(user.emailVerified) THEN "true" ELSE "false")]>>
       ELSE <<>>)
    \o (IF TruthyStr(user.firstName)
       THEN <<[Name |-> Some(Name("given_name")), Value |-> user.firstName]>> ELSE <<>>)
    \o (IF TruthyStr(user.lastName)
       THEN <<[Name |-> Some(Name("family_name")), Value |-> user.lastName]>> ELSE <<>>)
    \o (IF TruthyStr(user.id)
       THEN <<[Name |-> Some(Name("sub")), Value |-> user.id]>> ELSE <<>>)
    \o (IF IsDefined(user.attributes)
       THEN customAttributesFrom(KeysInOrder(DOMAIN Get(user.attributes)),
                                 Get(user.attributes))
       ELSE <<>>)

\* attributes?.find((a) => a.Name === name)?.Value
getAttributeValue(attributes, name) ==
    IF ~IsDefined(attributes) THEN Absent
    ELSE LET list == Get(attributes)
             hits == {i \in 1..Len(list) : list[i].Name = Some(name)}
         IN IF hits = {} THEN Absent
            ELSE list[CHOOSE i \in hits : \A j \in hits : i <= j].Value

\* createdTimestamp ? new Date(createdTimestamp) : undefined
createdDate(user) ==
    IF TruthyNum(user.createdTimestamp) THEN user.createdTimestamp ELSE Absent

\* attributes?.lastModifiedDate?.[0] ? new Date(...) : createdTimestamp
lastModifiedDate(user) ==
    IF /\ IsDefined(user.attributes)
       /\ LastModifiedKey \in DOMAIN Get(user.attributes)
       /\ Len(Get(user.attributes)[LastModifiedKey]) > 0
       /\ Get(user.attributes)[LastModifiedKey][1] # ""
    THEN Some(parseDate(Get(user.attributes)[LastModifiedKey][1]))
    ELSE createdDate(user)

UPDATE_PASSWORD == "UPDATE_PASSWORD"
VERIFY_EMAIL == "VERIFY_EMAIL"

\* user.requiredActions?.includes("UPDATE_PASSWORD")
HasUpdatePassword(user) ==
    IsDefined(user.requiredActions) /\ Includes(Get(user.requiredActions), UPDATE_PASSWORD)

keycloakToCognitoUserStatus_actionsFirst(user) ==
    IF HasUpdatePassword(user) THEN "FORCE_CHANGE_PASSWORD"
    ELSE IF ~TruthyBool(user.enabled) THEN "ARCHIVED"
    ELSE "CONFIRMED"

\* utils.ts keycloakToCognitoUser: the status derivation
keycloakToCognitoUserStatus(user) ==
    IF ~TruthyBool(user.enabled) THEN "ARCHIVED"
    ELSE IF HasUpdatePassword(user) THEN "FORCE_CHANGE_PASSWORD"
    ELSE "CONFIRMED"

\* utils.ts keycloakToCognitoUser (used by ListUsers and AdminCreateUser)
keycloakToCognitoUser(user) ==
    [Username |-> IF IsDefined(user.username) THEN user.username ELSE user.id,
     Attributes |-> keycloakToCognitoAttributes(user),
     UserCreateDate |-> createdDate(user),
     UserLastModifiedDate |-> lastModifiedDate(user),
     Enabled |-> user.enabled,
     UserStatus |-> keycloakToCognitoUserStatus(user)]

\* users.ts adminGetUser: the status derivation written out in the handler
adminGetUserStatus(user) ==
    IF ~TruthyBool(user.enabled) THEN "ARCHIVED"
    ELSE IF HasUpdatePassword(user) THEN "FORCE_CHANGE_PASSWORD"
    ELSE "CONFIRMED"

\* users.ts adminGetUser: the response built from the user found
adminGetUserResponse(user) ==
    [Username |-> user.username,
     UserAttributes |-> keycloakToCognitoAttributes(user),
     UserCreateDate |-> createdDate(user),
     UserLastModifiedDate |-> lastModifiedDate(user),
     Enabled |-> user.enabled,
     UserStatus |-> adminGetUserStatus(user)]

\* groups.ts keycloakToCognitoUser: the status derivation
groups_keycloakToCognitoUserStatus(user) ==
    IF ~TruthyBool(user.enabled) THEN "ARCHIVED"
    ELSE IF HasUpdatePassword(user) THEN "FORCE_CHANGE_PASSWORD"
    ELSE "CONFIRMED"

\* groups.ts keycloakToCognitoUser (used by ListUsersInGroup)
groups_keycloakToCognitoUser(user) ==
    [Username |-> user.username,
     Attributes |->
        (IF TruthyStr(user.email)
           THEN <<[Name |-> Some(Name("email")), Value |-> user.email]>> ELSE <<>>)
        \o (IF IsDefined(user.emailVerified)
           THEN <<[Name |-> Some(Name("email_verified")),
                   Value |-> Some(IF Get(user.emailVerified) THEN "true" ELSE "false")]>>
           ELSE <<>>)
        \o (IF TruthyStr(user.firstName)
           THEN <<[Name |-> Some(Name("given_name")), Value |-> user.firstName]>> ELSE <<>>)
        \o (IF TruthyStr(user.lastName)
           THEN <<[Name |-> Some(Name("family_name")), Value |-> user.lastName]>> ELSE <<>>)
        \o (IF TruthyStr(user.id)
           THEN <<[Name |-> Some(Name("sub")), Value |-> user.id]>> ELSE <<>>),
     UserCreateDate |-> createdDate(user),
     UserLastModifiedDate |-> createdDate(user),
     Enabled |-> user.enabled,
     UserStatus |-> groups_keycloakToCognitoUserStatus(user)]

----------------------------------------------------------------------------
(* The backend identity store, as the handlers use it through               *)
(* @keycloak/keycloak-admin-client.  A call either returns or fails with a  *)
(* NetworkError carrying the HTTP status.                                   *)

UserIds == {ToString(n) : n \in 1..MaxUserIds}
GroupIds == {ToString(n) : n \in 1..MaxGroupIds}

\* the users now in the store
KcUsers(users) == {Get(users[i]) : i \in {j \in DOMAIN users : IsDefined(users[j])}}

\* users.find({ exact: true, username })
KcFindUsersExact(users, username) ==
    KeysInOrder({u \in KcUsers(users) : u.username = Some(username)})

\* users.findOne({ id }): undefined when the backend answers 404
KcFindOneUser(users, id) == IF id \in DOMAIN users THEN users[id] ELSE Absent

\* the backend keeps the required actions of a user as a set
RECURSIVE Dedup(_)
Dedup(seq) ==
    IF seq = <<>> THEN <<>>
    ELSE LET rest == Dedup(SubSeq(seq, 1, Len(seq) - 1))
             last == seq[Len(seq)]
         IN IF Includes(rest, last) THEN rest ELSE Append(rest, last)

\* POST /users answers 409 when the username is taken
KcCreateUserConflicts(users, body) ==
    \E u \in KcUsers(users) : u.username = body.username

\* POST /users: the representation stored for a create body
KcCreatedUser(body, id, now) ==
    [id |-> Some(id),
     username |-> body.username,
     email |-> body.email,
     firstName |-> body.firstName,
     lastName |-> body.lastName,
     enabled |-> body.enabled,
     emailVerified |-> body.emailVerified,
     requiredActions |->
        Some(Dedup((IF IsDefined(body.requiredActions)
                      THEN Get(body.requiredActions) ELSE <<>>)
                   \o (IF IsDefined(body.credentials) /\ Get(body.credentials).temporary
                         THEN <<UPDATE_PASSWORD>> ELSE <<>>))),
     attributes |-> body.attributes,
     createdTimestamp |-> Some(now)]

\* PUT /users/{id}: the fields the payload carries replace the stored ones
KcUpdatedUser(old, payload) ==
    [id |-> old.id,
     username |-> old.username,
     email |-> IF IsDefined(payload.email) THEN payload.email ELSE old.email,
     firstName |-> IF IsDefined(payload.firstName) THEN payload.firstName ELSE old.firstName,
     lastName |-> IF IsDefined(payload.lastName) THEN payload.lastName ELSE old.lastName,
     enabled |-> IF IsDefined(payload.enabled) THEN payload.enabled ELSE old.enabled,
     emailVerified |-> IF IsDefined(payload.emailVerified)
                       THEN payload.emailVerified ELSE old.emailVerified,
     requiredActions |-> IF IsDefined(payload.requiredActions)
                         THEN Some(Dedup(Get(payload.requiredActions)))
                         ELSE old.requiredActions,
     attributes |-> IF IsDefined(payload.attributes)
                    THEN payload.attributes ELSE old.attributes,
     createdTimestamp |-> old.createdTimestamp]

\* PUT /users/{id}/reset-password: a permanent password clears the pending
\* "update password" action, a temporary one sets it
KcPasswordReset(old, temporary) ==
    [old EXCEPT !.requiredActions =
        LET current == IF IsDefined(old.requiredActions)
                       THEN Get(old.requiredActions) ELSE <<>>
        IN IF temporary
           THEN Some(Dedup(Append(current, UPDATE_PASSWORD)))
           ELSE Some(SelectSeq(current, LAMBDA a : a # UPDATE_PASSWORD))]

\* the entities of a store in the order the backend lists them
IdOrder(store) == [k \in 1..Cardinality(DOMAIN store) |-> ToString(k)]

KcList(store) ==
    LET ids == SelectSeq(IdOrder(store), LAMBDA i : IsDefined(store[i]))
    IN [k \in 1..Len(ids) |-> Get(store[ids[k]])]

\* first/max of a backend listing, and Array.prototype.slice(first, first + max)
Page(seq, first, max) ==
    IF first >= Len(seq) THEN <<>>
    ELSE SubSeq(seq, first + 1, IF first + max < Len(seq) THEN first + max ELSE Len(seq))

\* users.find({ first, max, email, search })
KcFindUsers(users, first, max, email, search) ==
    Page(SelectSeq(KcList(users),
                   LAMBDA u : /\ IsDefined(email) => u.email = email
                              /\ IsDefined(search) =>
                                    (u.username = search \/ u.email = search)),
         first, max)

\* the search text occurs in the group name
Contains(name, search) ==
    \E i \in 0..(Len(name) - Len(search)) :
        SubSeq(name, i + 1, i + Len(search)) = search

\* a listing gives the brief representation of a group: no attributes
Brief(group) == [group EXCEPT !.attributes = Absent]

\* groups.find({ search }): a partial match on the name
KcFindGroupsSearch(groups, search) ==
    LET hits == SelectSeq(KcList(groups), LAMBDA g : Contains(Get(g.name), search))
    IN [k \in 1..Len(hits) |-> Brief(hits[k])]

\* groups.find({ first, max })
KcFindGroups(groups, first, max) ==
    LET page == Page(KcList(groups), first, max)
    IN [k \in 1..Len(page) |-> Brief(page[k])]

\* groups.findOne({ id }): undefined when the backend answers 404
KcFindOneGroup(groups, id) == IF id \in DOMAIN groups THEN groups[id] ELSE Absent

\* POST /groups answers 409 when a top-level group has the name
KcCreateGroupConflicts(groups, body) ==
    \E i \in DOMAIN groups : IsDefined(groups[i]) /\ Get(groups[i]).name = body.name

\* POST /groups: the representation stored for a create body
KcCreatedGroup(body, id) ==
    [id |-> Some(id), name |-> body.name,
     attributes |-> IF IsDefined(body.attributes) THEN body.attributes
                    ELSE Some(EmptyMap)]

\* PUT /groups/{id}: the name and the attributes are replaced
KcUpdatedGroup(old, payload) ==
    [id |-> old.id, name |-> payload.name,
     attributes |-> IF IsDefined(payload.attributes) THEN payload.attributes
                    ELSE old.attributes]

\* groups.listMembers({ id, first, max })
KcListMembers(users, members, id, first, max) ==
    Page(SelectSeq(KcList(users), LAMBDA u : <<Get(u.id), id>> \in members),
         first, max)

\* users.listGroups({ id }): brief representations
KcListGroupsOfUser(groups, members, id) ==
    LET hits == SelectSeq(KcList(groups), LAMBDA g : <<id, Get(g.id)>> \in members)
    IN [k \in 1..Len(hits) |-> Brief(hits[k])]

----------------------------------------------------------------------------
(* Requests in flight *)

NumSlots == 2
Slots == 1..NumSlots

PoolRealm == "local_pool"
MasterRealm == "master"

\* A slot holds one inbound request: its body, the handler's position (pc),
\* the handler's locals, and the response once the handler has returned or
\* thrown.  writes counts the backend write calls the handler has issued,
\* conflict records that the backend answered one of them with 409.
IdleReq ==
    [action |-> "none", pc |-> "idle",
     Username |-> Absent, GroupName |-> Absent,
     UserAttributes |-> Absent, UserAttributeNames |-> Absent,
     TemporaryPassword |-> Absent, MessageAction |-> Absent,
     Password |-> Absent, Permanent |-> Absent,
     Limit |-> Absent, NextToken |-> Absent,
     PaginationToken |-> Absent, Filter |-> Absent,
     Description |-> Absent, Precedence |-> Absent, RoleArn |-> Absent,
     UserPoolId |-> Absent,
     user |-> Absent, group |-> Absent,
     target |-> Absent, parsed |-> FALSE, invoked |-> FALSE,
     writes |-> 0, conflict |-> FALSE, resp |-> Absent]

\* createErrorResponse(code, message), sent with an HTTP status.  thrown keeps
\* the value the dispatcher caught (Absent when nothing was thrown).
createErrorResponse(code, message, status, thrown) ==
    [status |-> status, type |-> code, message |-> message, body |-> Absent,
     thrown |-> thrown]

\* the values a handler can throw: a CognitoException, or any other Error
CognitoExceptionValue(code, message, httpStatusCode) ==
    [kind |-> "CognitoException", code |-> code, message |-> message,
     httpStatusCode |-> httpStatusCode]

ErrorValue(message) ==
    [kind |-> "Error", code |-> "", message |-> message, httpStatusCode |-> 0]

\* a catch clause that answers every exception as an internal error
dispatchCatch_allInternal(error) ==
    createErrorResponse("InternalErrorException", error.message, 500, Some(error))

\* the catch clause of dispatchAction
dispatchCatch(error) ==
    IF error.kind = "CognitoException"
    THEN createErrorResponse(error.code, error.message, error.httpStatusCode,
                             Some(error))
    ELSE IF error.kind = "Error"
    THEN createErrorResponse("InternalErrorException", error.message, 500,
                             Some(error))
    ELSE createErrorResponse("InternalErrorException",
                             "An unknown error occurred", 500, Some(error))

\* throw new CognitoException(code, message, httpStatusCode), as
\* dispatchAction answers it
CognitoException(code, message, status) ==
    dispatchCatch(CognitoExceptionValue(code, message, status))

\* any other Error thrown by a handler, as dispatchAction answers it
InternalError(message) == dispatchCatch(ErrorValue(message))

\* a handler result, as dispatchAction answers it.  Date values of the result
\* stay Date values here; convertDatesToEpochSeconds is modelled on its own
\* below.
Ok(body) ==
    [status |-> 200, type |-> "", message |-> "", body |-> Some(body),
     thrown |-> Absent]

UsernameMissing ==
    CognitoException("InvalidParameterException",
        "1 validation error detected: Value at 'username' failed to satisfy constraint: Member must not be null",
        400)

GroupNameMissing ==
    CognitoException("InvalidParameterException",
        "1 validation error detected: Value at 'groupName' failed to satisfy constraint: Member must not be null",
        400)

PasswordMissing ==
    CognitoException("InvalidParameterException",
        "1 validation error detected: Value at 'password' failed to satisfy constraint: Member must not be null",
        400)

UserNotFound ==
    CognitoException("UserNotFoundException", "User does not exist.", 400)

GroupNotFound ==
    CognitoException("ResourceNotFoundException", "Group not found.", 400)

UsernameExists ==
    CognitoException("UsernameExistsException",
        "An account with the given username already exists.", 400)

GroupExists ==
    CognitoException("GroupExistsException",
        "A group with the name already exists in the user pool.", 400)

\* the handler returns or throws: the dispatcher's response is ready
Respond(r, response) ==
    [r EXCEPT !.pc = "done", !.resp = Some(response), !.user = Absent, !.group = Absent]

\* the handler goes on to await its next backend call
Goto(r, pc) == [r EXCEPT !.pc = pc]

\* a backend call fails with a NetworkError nobody catches
NetworkError(status) == InternalError(ToString(status))

UserActions ==
    {"AdminCreateUser", "AdminDeleteUser", "AdminGetUser",
     "AdminUpdateUserAttributes", "AdminSetUserPassword", "AdminEnableUser",
     "AdminDisableUser", "AdminDeleteUserAttributes", "AdminConfirmSignUp",
     "AdminResetUserPassword", "AdminUserGlobalSignOut"}

----------------------------------------------------------------------------
(* requireUsername, requireGroupName and what each handler does between    *)
(* `await authenticate()` and its first backend call                       *)

\* requireUsername(username): true when it throws
requireUsernameThrows(username) == ~TruthyStr(username)

----------------------------------------------------------------------------
(* The pool schema (user-pool.ts) and the attribute validators *)

stringAttr(name, required, mutable) ==
    [Name |-> Name(name), Mutable |-> mutable, Required |-> required]

boolAttr(name) == [Name |-> Name(name), Mutable |-> TRUE, Required |-> FALSE]

SCHEMA_ATTRIBUTES ==
    <<stringAttr("sub", TRUE, FALSE),
      stringAttr("email", TRUE, TRUE),
      boolAttr("email_verified"),
      stringAttr("given_name", FALSE, TRUE),
      stringAttr("family_name", FALSE, TRUE),
      stringAttr("name", FALSE, TRUE),
      stringAttr("middle_name", FALSE, TRUE),
      stringAttr("nickname", FALSE, TRUE),
      stringAttr("preferred_username", FALSE, TRUE),
      stringAttr("profile", FALSE, TRUE),
      stringAttr("picture", FALSE, TRUE),
      stringAttr("website", FALSE, TRUE),
      stringAttr("gender", FALSE, TRUE),
      stringAttr("birthdate", FALSE, TRUE),
      stringAttr("zoneinfo", FALSE, TRUE),
      stringAttr("locale", FALSE, TRUE),
      stringAttr("phone_number", FALSE, TRUE),
      boolAttr("phone_number_verified"),
      stringAttr("address", FALSE, TRUE),
      [Name |-> Name("updated_at"), Mutable |-> TRUE, Required |-> FALSE],
      [Name |-> Name("identities"), Mutable |-> TRUE, Required |-> FALSE]>>

\* getSchemaAttributeMap(): the schema attributes by name
getSchemaAttributeMap ==
    [n \in {SCHEMA_ATTRIBUTES[i].Name : i \in DOMAIN SCHEMA_ATTRIBUTES} |->
        SCHEMA_ATTRIBUTES[CHOOSE i \in DOMAIN SCHEMA_ATTRIBUTES :
                            SCHEMA_ATTRIBUTES[i].Name = n]]

ImmutableAttribute ==
    CognitoException("InvalidParameterException",
        "Cannot modify immutable attribute", 400)

RequiredAttribute ==
    CognitoException("InvalidParameterException",
        "Cannot delete required attribute", 400)

\* validateAttributeMutable(name, schemaMap): true when it throws
validateAttributeMutableThrows(name, schemaMap) ==
    name \in DOMAIN schemaMap /\ ~schemaMap[name].Mutable

\* validateAttributeDeletable(name, schemaMap): true when it throws
validateAttributeDeletableThrows(name, schemaMap) ==
    name \in DOMAIN schemaMap /\ schemaMap[name].Required

----------------------------------------------------------------------------
(* User handlers (users.ts): the payloads they build *)

NoPayload ==
    [id |-> Absent, username |-> Absent, email |-> Absent, firstName |-> Absent,
     lastName |-> Absent, enabled |-> Absent, emailVerified |-> Absent,
     requiredActions |-> Absent, attributes |-> Absent,
     createdTimestamp |-> Absent, credentials |-> Absent]

\* { ...user }
SpreadUser(user) ==
    [NoPayload EXCEPT !.id = user.id, !.username = user.username,
        !.email = user.email, !.firstName = user.firstName,
        !.lastName = user.lastName, !.enabled = user.enabled,
        !.emailVerified = user.emailVerified,
        !.requiredActions = user.requiredActions,
        !.attributes = user.attributes,
        !.createdTimestamp = user.createdTimestamp]

\* { ...user.attributes }
SpreadAttributes(user) ==
    IF IsDefined(user.attributes) THEN Get(user.attributes) ELSE EmptyMap

\* lastModifiedDate: [new Date().toISOString()]
Stamp(now) == [k \in {LastModifiedKey} |-> <<toISOString(now)>>]

\* adminCreateUser with the pending action left to the credentials
adminCreateUserBody_noRequiredAction(r, now) ==
    [NoPayload EXCEPT
        !.username = r.Username,
        !.email = getAttributeValue(r.UserAttributes, Name("email")),
        !.firstName = getAttributeValue(r.UserAttributes, Name("given_name")),
        !.lastName = getAttributeValue(r.UserAttributes, Name("family_name")),
        !.enabled = Some(TRUE),
        !.emailVerified =
            Some(getAttributeValue(r.UserAttributes, Name("email_verified")) = Some("true")
                 \/ r.MessageAction = Some("SUPPRESS")),
        !.attributes =
            Some(Spread(cognitoToKeycloakAttributes(r.UserAttributes), Stamp(now))),
        !.credentials =
            IF TruthyStr(r.TemporaryPassword)
            THEN Some([type |-> "password", value |-> Get(r.TemporaryPassword),
                       temporary |-> TRUE])
            ELSE Absent]

\* adminCreateUser: the body of users.create
adminCreateUserBody(r, now) ==
    [NoPayload EXCEPT
        !.username = r.Username,
        !.email = getAttributeValue(r.UserAttributes, Name("email")),
        !.firstName = getAttributeValue(r.UserAttributes, Name("given_name")),
        !.lastName = getAttributeValue(r.UserAttributes, Name("family_name")),
        !.enabled = Some(TRUE),
        !.emailVerified =
            Some(getAttributeValue(r.UserAttributes, Name("email_verified")) = Some("true")
                 \/ r.MessageAction = Some("SUPPRESS")),
        !.attributes =
            Some(Spread(cognitoToKeycloakAttributes(r.UserAttributes), Stamp(now))),
        !.requiredActions = Some(<<UPDATE_PASSWORD>>),
        !.credentials =
            IF TruthyStr(r.TemporaryPassword)
            THEN Some([type |-> "password", value |-> Get(r.TemporaryPassword),
                       temporary |-> TRUE])
            ELSE Absent]

\* adminUpdateUserAttributes: the payload of users.update
adminUpdateUserAttributesPayload(user, UserAttributes, now) ==
    LET email == getAttributeValue(UserAttributes, Name("email"))
        firstName == getAttributeValue(UserAttributes, Name("given_name"))
        lastName == getAttributeValue(UserAttributes, Name("family_name"))
        emailVerified == getAttributeValue(UserAttributes, Name("email_verified"))
    IN [SpreadUser(user) EXCEPT
          !.email = IF IsDefined(email) THEN email ELSE @,
          !.firstName = IF IsDefined(firstName) THEN firstName ELSE @,
          !.lastName = IF IsDefined(lastName) THEN lastName ELSE @,
          !.emailVerified = IF IsDefined(emailVerified)
                            THEN Some(emailVerified = Some("true")) ELSE @,
          !.attributes =
              Some(Spread(Spread(SpreadAttributes(user),
                                 cognitoToKeycloakAttributes(UserAttributes)),
                          Stamp(now)))]

\* adminSetUserPassword, adminEnableUser, adminDisableUser, adminConfirmSignUp
\* and adminResetUserPassword all write the user back with a fresh stamp
Restamped(user, now) ==
    [SpreadUser(user) EXCEPT
        !.attributes = Some(Spread(SpreadAttributes(user), Stamp(now)))]

adminSetUserPasswordPayload(updatedUser, now) == Restamped(updatedUser, now)

\* adminEnableUser that writes the user back as read
adminEnableUserPayload_asRead(user, now) == Restamped(user, now)

adminEnableUserPayload(user, now) ==
    [Restamped(user, now) EXCEPT !.enabled = Some(TRUE)]

\* adminDisableUser that sends the flag and the stamp only
adminDisableUserPayload_flagOnly(user, now) ==
    [NoPayload EXCEPT !.id = user.id, !.enabled = Some(FALSE),
                      !.attributes = Some(Stamp(now))]

adminDisableUserPayload(user, now) ==
    [Restamped(user, now) EXCEPT !.enabled = Some(FALSE)]

adminConfirmSignUpPayload(user, now) ==
    [Restamped(user, now) EXCEPT
        !.emailVerified = Some(TRUE),
        !.requiredActions =
            Some(SelectSeq(IF IsDefined(user.requiredActions)
                             THEN Get(user.requiredActions) ELSE <<>>,
                           LAMBDA a : a # VERIFY_EMAIL))]

\* adminResetUserPassword that replaces the pending actions
adminResetUserPasswordPayload_replacing(user, now) ==
    [Restamped(user, now) EXCEPT !.requiredActions = Some(<<UPDATE_PASSWORD>>)]

adminResetUserPasswordPayload(user, now) ==
    LET currentActions == IF IsDefined(user.requiredActions)
                          THEN Get(user.requiredActions) ELSE <<>>
    IN [Restamped(user, now) EXCEPT
          !.requiredActions =
              Some(IF Includes(currentActions, UPDATE_PASSWORD)
                   THEN currentActions
                   ELSE Append(currentActions, UPDATE_PASSWORD))]

\* adminDeleteUserAttributes: the standard fields named are cleared
RECURSIVE clearedFields(_, _)
clearedFields(names, payload) ==
    IF names = <<>> THEN payload
    ELSE LET n == Head(names)
             next == IF n = Name("email") THEN [payload EXCEPT !.email = Some("")]
                     ELSE IF n = Name("given_name")
                          THEN [payload EXCEPT !.firstName = Some("")]
                     ELSE IF n = Name("family_name")
                          THEN [payload EXCEPT !.lastName = Some("")]
                     ELSE IF n = Name("email_verified")
                          THEN [payload EXCEPT !.emailVerified = Some(FALSE)]
                     ELSE payload
         IN clearedFields(Tail(names), next)

\* adminDeleteUserAttributes: the keys named are deleted from the attributes
RECURSIVE withoutKeys(_, _)
withoutKeys(names, attributes) ==
    IF names = <<>> THEN attributes
    ELSE withoutKeys(Tail(names), DeleteKey(attributes, StripCustom(Head(names))))

adminDeleteUserAttributesPayload(user, names, now) ==
    [clearedFields(names, NoPayload) EXCEPT
        !.attributes =
            Some(Spread(withoutKeys(names, SpreadAttributes(user)), Stamp(now)))]

\* the loop as a mutant that validates the first name only
deleteValidation_firstOnly(names, schemaMap) ==
    IF names = <<>> THEN Absent
    ELSE IF validateAttributeMutableThrows(Head(names), schemaMap)
         THEN Some(ImmutableAttribute)
    ELSE IF validateAttributeDeletableThrows(Head(names), schemaMap)
         THEN Some(RequiredAttribute)
    ELSE Absent

\* the loop as a mutant that leaves out validateAttributeDeletable
RECURSIVE deleteValidation_mutableOnly(_, _)
deleteValidation_mutableOnly(names, schemaMap) ==
    IF names = <<>> THEN Absent
    ELSE IF validateAttributeMutableThrows(Head(names), schemaMap)
         THEN Some(ImmutableAttribute)
    ELSE deleteValidation_mutableOnly(Tail(names), schemaMap)

\* the first name of the list a validator rejects, with the error thrown:
\* for (name of names) { validateAttributeMutable; validateAttributeDeletable }
RECURSIVE deleteValidation(_, _)
deleteValidation(names, schemaMap) ==
    IF names = <<>> THEN Absent
    ELSE IF validateAttributeMutableThrows(Head(names), schemaMap)
         THEN Some(ImmutableAttribute)
    ELSE IF validateAttributeDeletableThrows(Head(names), schemaMap)
         THEN Some(RequiredAttribute)
    ELSE deleteValidation(Tail(names), schemaMap)

\* for (attr of UserAttributes) { if (!attr.Name) continue;
\*                                validateAttributeMutable(attr.Name) }
RECURSIVE updateValidation(_, _)
updateValidation(attrs, schemaMap) ==
    IF attrs = <<>> THEN Absent
    ELSE IF TruthyName(Head(attrs).Name)
            /\ validateAttributeMutableThrows(Get(Head(attrs).Name), schemaMap)
         THEN Some(ImmutableAttribute)
    ELSE updateValidation(Tail(attrs), schemaMap)

----------------------------------------------------------------------------
(* User handlers (users.ts): one action per backend call *)

At(s, action, pc) == req[s].action = action /\ req[s].pc = pc
SetReq(s, r) == req' = [req EXCEPT ![s] = r]
Wrote(r) == [r EXCEPT !.writes = @ + 1]

\* a lookup that takes whichever user the backend lists first
getRequiredUser_firstListed(users, username) ==
    LET all == KeysInOrder(KcUsers(users))
    IN IF all = <<>> THEN Absent ELSE Some(all[1])

\* getRequiredUser(username): the user found, or Absent when it throws
getRequiredUser(users, username) ==
    LET found == KcFindUsersExact(users, username)
    IN IF found = <<>> \/ ~TruthyStr(found[1].id) THEN Absent ELSE Some(found[1])

\* keycloakClient.users.update({ id }, payload) issued by slot s
UsersUpdate(s, id, payload, then) ==
    IF IsDefined(KcFindOneUser(kcUsers, id))
    THEN /\ kcUsers' = [kcUsers EXCEPT ![id] = Some(KcUpdatedUser(Get(@), payload))]
         /\ SetReq(s, then)
    ELSE /\ kcUsers' = kcUsers
         /\ SetReq(s, Respond(then, NetworkError(404)))

adminCreateUser_create(s) ==
    LET r == req[s]
        body == Get(r.user)
        id == ToString(nextUserId)
    IN /\ At(s, "AdminCreateUser", "users.create")
       /\ IF KcCreateUserConflicts(kcUsers, body)
          THEN /\ SetReq(s, Respond([Wrote(r) EXCEPT !.conflict = TRUE],
                                    UsernameExists))
               /\ UNCHANGED <<kcUsers, nextUserId>>
          ELSE /\ nextUserId <= MaxUserIds
               /\ kcUsers' = [kcUsers EXCEPT ![id] = Some(KcCreatedUser(body, id, clock))]
               /\ nextUserId' = nextUserId + 1
               /\ SetReq(s, Goto([Wrote(r) EXCEPT !.user = Some([NoPayload EXCEPT !.id = Some(id)])],
                                 "users.findOne"))
       /\ UNCHANGED <<kcGroups, kcMembers, nextGroupId, clientVars, otherVars>>

adminCreateUser_findOne(s) ==
    LET r == req[s]
        createdUser == KcFindOneUser(kcUsers, Get(Get(r.user).id))
    IN /\ At(s, "AdminCreateUser", "users.findOne")
       /\ SetReq(s, IF IsDefined(createdUser)
                    THEN Respond(r, Ok([User |-> keycloakToCognitoUser(Get(createdUser))]))
                    ELSE Respond(r, InternalError("TypeError")))
       /\ UNCHANGED <<backendVars, clientVars, otherVars>>

adminDeleteUser_getRequiredUser(s) ==
    LET r == req[s]
        user == getRequiredUser(kcUsers, Get(r.Username))
    IN /\ At(s, "AdminDeleteUser", "getRequiredUser")
       /\ SetReq(s, IF IsDefined(user)
                    THEN Goto([r EXCEPT !.user = user], "users.del")
                    ELSE Respond(r, UserNotFound))
       /\ UNCHANGED <<backendVars, clientVars, otherVars>>

adminDeleteUser_del(s) ==
    LET r == req[s]
        id == Get(Get(r.user).id)
    IN /\ At(s, "AdminDeleteUser", "users.del")
       /\ IF IsDefined(KcFindOneUser(kcUsers, id))
          THEN /\ kcUsers' = [kcUsers EXCEPT ![id] = Absent]
               /\ kcMembers' = {m \in kcMembers : m[1] # id}
               /\ SetReq(s, Respond(Wrote(r), Ok(EmptyMap)))
          ELSE /\ SetReq(s, Respond(Wrote(r), NetworkError(404)))
               /\ UNCHANGED <<kcUsers, kcMembers>>
       /\ UNCHANGED <<kcGroups, nextUserId, nextGroupId, clientVars, otherVars>>

adminGetUser_getRequiredUser(s) ==
    LET r == req[s]
        user == getRequiredUser(kcUsers, Get(r.Username))
    IN /\ At(s, "AdminGetUser", "getRequiredUser")
       /\ SetReq(s, IF IsDefined(user)
                    THEN Respond(r, Ok(adminGetUserResponse(Get(user))))
                    ELSE Respond(r, UserNotFound))
       /\ UNCHANGED <<backendVars, clientVars, otherVars>>

adminUpdateUserAttributes_getRequiredUser(s) ==
    LET r == req[s]
        user == getRequiredUser(kcUsers, Get(r.Username))
        invalid == updateValidation(Get(r.UserAttributes), getSchemaAttributeMap)
    IN /\ At(s, "AdminUpdateUserAttributes", "getRequiredUser")
       /\ SetReq(s,
            IF ~IsDefined(user) THEN Respond(r, UserNotFound)
            ELSE IF ~IsDefined(r.UserAttributes) THEN Respond(r, Ok(EmptyMap))
            ELSE IF IsDefined(invalid) THEN Respond(r, Get(invalid))
            ELSE Goto([r EXCEPT !.user =
                          Some(adminUpdateUserAttributesPayload(
                                  Get(user), r.UserAttributes, clock))],
                      "users.update"))
       /\ UNCHANGED <<backendVars, clientVars, otherVars>>

adminUpdateUserAttributes_update(s) ==
    LET r == req[s]
    IN /\ At(s, "AdminUpdateUserAttributes", "users.update")
       /\ UsersUpdate(s, Get(Get(r.user).id), Get(r.user),
                      Respond(Wrote(r), Ok(EmptyMap)))
       /\ UNCHANGED <<kcGroups, kcMembers, nextUserId, nextGroupId, clientVars, otherVars>>

adminSetUserPassword_getRequiredUser(s) ==
    LET r == req[s]
        user == getRequiredUser(kcUsers, Get(r.Username))
    IN /\ At(s, "AdminSetUserPassword", "getRequiredUser")
       /\ SetReq(s, IF IsDefined(user)
                    THEN Goto([r EXCEPT !.user = Some(SpreadUser(Get(user)))],
                              "users.resetPassword")
                    ELSE Respond(r, UserNotFound))
       /\ UNCHANGED <<backendVars, clientVars, otherVars>>

adminSetUserPassword_resetPassword(s) ==
    LET r == req[s]
        id == Get(Get(r.user).id)
    IN /\ At(s, "AdminSetUserPassword", "users.resetPassword")
       /\ IF IsDefined(KcFindOneUser(kcUsers, id))
          THEN /\ kcUsers' = [kcUsers EXCEPT ![id] =
                     Some(KcPasswordReset(Get(@), ~TruthyBool(r.Permanent)))]
               /\ SetReq(s, Goto(Wrote(r), "getRequiredUser.2"))
          ELSE /\ kcUsers' = kcUsers
               /\ SetReq(s, Respond(Wrote(r), NetworkError(404)))
       /\ UNCHANGED <<kcGroups, kcMembers, nextUserId, nextGroupId, clientVars, otherVars>>

adminSetUserPassword_getRequiredUser2(s) ==
    LET r == req[s]
        updatedUser == getRequiredUser(kcUsers, Get(r.Username))
    IN /\ At(s, "AdminSetUserPassword", "getRequiredUser.2")
       /\ SetReq(s, IF IsDefined(updatedUser)
                    THEN Goto([r EXCEPT !.user =
                                  Some([adminSetUserPasswordPayload(Get(updatedUser), clock)
                                           EXCEPT !.id = Get(r.user).id])],
                              "users.update")
                    ELSE Respond(r, UserNotFound))
       /\ UNCHANGED <<backendVars, clientVars, otherVars>>

adminSetUserPassword_update(s) ==
    LET r == req[s]
    IN /\ At(s, "AdminSetUserPassword", "users.update")
       /\ UsersUpdate(s, Get(Get(r.user).id), Get(r.user),
                      Respond(Wrote(r), Ok(EmptyMap)))
       /\ UNCHANGED <<kcGroups, kcMembers, nextUserId, nextGroupId, clientVars, otherVars>>

\* getRequiredUser(username), then the payload of users.update is built
\* from the user found
ReadForUpdate(r, user, payload) ==
    IF IsDefined(user)
    THEN Goto([r EXCEPT !.user = Some(payload)], "users.update")
    ELSE Respond(r, UserNotFound)

adminEnableUser_getRequiredUser(s) ==
    LET r == req[s]
        user == getRequiredUser(kcUsers, Get(r.Username))
    IN /\ At(s, "AdminEnableUser", "getRequiredUser")
       /\ SetReq(s, ReadForUpdate(r, user, adminEnableUserPayload(Get(user), clock)))
       /\ UNCHANGED <<backendVars, clientVars, otherVars>>

adminEnableUser_update(s) ==
    LET r == req[s]
    IN /\ At(s, "AdminEnableUser", "users.update")
       /\ UsersUpdate(s, Get(Get(r.user).id), Get(r.user), Respond(Wrote(r), Ok(EmptyMap)))
       /\ UNCHANGED <<kcGroups, kcMembers, nextUserId, nextGroupId, clientVars, otherVars>>

adminDisableUser_getRequiredUser(s) ==
    LET r == req[s]
        user == getRequiredUser(kcUsers, Get(r.Username))
    IN /\ At(s, "AdminDisableUser", "getRequiredUser")
       /\ SetReq(s, ReadForUpdate(r, user, adminDisableUserPayload(Get(user), clock)))
       /\ UNCHANGED <<backendVars, clientVars, otherVars>>

adminDisableUser_update(s) ==
    LET r == req[s]
    IN /\ At(s, "AdminDisableUser", "users.update")
       /\ UsersUpdate(s, Get(Get(r.user).id), Get(r.user), Respond(Wrote(r), Ok(EmptyMap)))
       /\ UNCHANGED <<kcGroups, kcMembers, nextUserId, nextGroupId, clientVars, otherVars>>

adminConfirmSignUp_getRequiredUser(s) ==
    LET r == req[s]
        user == getRequiredUser(kcUsers, Get(r.Username))
    IN /\ At(s, "AdminConfirmSignUp", "getRequiredUser")
       /\ SetReq(s, ReadForUpdate(r, user, adminConfirmSignUpPayload(Get(user), clock)))
       /\ UNCHANGED <<backendVars, clientVars, otherVars>>

adminConfirmSignUp_update(s) ==
    LET r == req[s]
    IN /\ At(s, "AdminConfirmSignUp", "users.update")
       /\ UsersUpdate(s, Get(Get(r.user).id), Get(r.user), Respond(Wrote(r), Ok(EmptyMap)))
       /\ UNCHANGED <<kcGroups, kcMembers, nextUserId, nextGroupId, clientVars, otherVars>>

adminDeleteUserAttributes_getRequiredUser(s) ==
    LET r == req[s]
        user == getRequiredUser(kcUsers, Get(r.Username))
        names == Get(r.UserAttributeNames)
        invalid == deleteValidation(names, getSchemaAttributeMap)
    IN /\ At(s, "AdminDeleteUserAttributes", "getRequiredUser")
       /\ SetReq(s,
            IF ~IsDefined(user) THEN Respond(r, UserNotFound)
            ELSE IF ~IsDefined(r.UserAttributeNames) \/ Len(names) = 0
                 THEN Respond(r, Ok(EmptyMap))
            ELSE IF IsDefined(invalid) THEN Respond(r, Get(invalid))
            ELSE Goto([r EXCEPT !.user =
                          Some([adminDeleteUserAttributesPayload(Get(user), names, clock)
                                   EXCEPT !.id = Get(user).id])],
                      "users.update"))
       /\ UNCHANGED <<backendVars, clientVars, otherVars>>

adminDeleteUserAttributes_update(s) ==
    LET r == req[s]
    IN /\ At(s, "AdminDeleteUserAttributes", "users.update")
       /\ UsersUpdate(s, Get(Get(r.user).id), Get(r.user), Respond(Wrote(r), Ok(EmptyMap)))
       /\ UNCHANGED <<kcGroups, kcMembers, nextUserId, nextGroupId, clientVars, otherVars>>

adminResetUserPassword_getRequiredUser(s) ==
    LET r == req[s]
        user == getRequiredUser(kcUsers, Get(r.Username))
    IN /\ At(s, "AdminResetUserPassword", "getRequiredUser")
       /\ SetReq(s, ReadForUpdate(r, user, adminResetUserPasswordPayload(Get(user), clock)))
       /\ UNCHANGED <<backendVars, clientVars, otherVars>>

\* users.update, then the e-mail is sent only to a verified address; the
\* payload carries the e-mail and the flag of the user as read
adminResetUserPassword_update(s) ==
    LET r == req[s]
        user == Get(r.user)
    IN /\ At(s, "AdminResetUserPassword", "users.update")
       /\ UsersUpdate(s, Get(user.id), user,
            IF TruthyStr(user.email) /\ TruthyBool(user.emailVerified)
            THEN Goto(Wrote(r), "users.executeActionsEmail")
            ELSE Respond(Wrote(r), Ok(EmptyMap)))
       /\ UNCHANGED <<kcGroups, kcMembers, nextUserId, nextGroupId, clientVars, otherVars>>

\* users.executeActionsEmail succeeds or fails; the catch swallows a failure
adminResetUserPassword_executeActionsEmail(s) ==
    LET r == req[s]
    IN /\ At(s, "AdminResetUserPassword", "users.executeActionsEmail")
       /\ \E sent \in BOOLEAN : SetReq(s, Respond(r, Ok(EmptyMap)))
       /\ UNCHANGED <<backendVars, clientVars, otherVars>>

adminUserGlobalSignOut_getRequiredUser(s) ==
    LET r == req[s]
        user == getRequiredUser(kcUsers, Get(r.Username))
    IN /\ At(s, "AdminUserGlobalSignOut", "getRequiredUser")
       /\ SetReq(s, IF IsDefined(user)
                    THEN Goto([r EXCEPT !.user = Some(SpreadUser(Get(user)))],
                              "users.logout")
                    ELSE Respond(r, UserNotFound))
       /\ UNCHANGED <<backendVars, clientVars, otherVars>>

\* POST /users/{id}/logout: 404 when the user is gone
adminUserGlobalSignOut_logout(s) ==
    LET r == req[s]
    IN /\ At(s, "AdminUserGlobalSignOut", "users.logout")
       /\ SetReq(s, IF IsDefined(KcFindOneUser(kcUsers, Get(Get(r.user).id)))
                    THEN Respond(Wrote(r), Ok(EmptyMap))
                    ELSE Respond(Wrote(r), NetworkError(404)))
       /\ UNCHANGED <<backendVars, clientVars, otherVars>>

\* the synchronous code of a user handler after authenticate() has returned
UserHandlerEntry(r, now) ==
    IF requireUsernameThrows(r.Username) THEN Respond(r, UsernameMissing)
    ELSE IF r.action = "AdminCreateUser"
         THEN Goto([r EXCEPT !.user = Some(adminCreateUserBody(r, now))], "users.create")
    ELSE IF r.action = "AdminSetUserPassword" /\ ~TruthyStr(r.Password)
         THEN Respond(r, PasswordMissing)
    ELSE Goto(r, "getRequiredUser")

UserHandlerStep(s) ==
    \/ adminCreateUser_create(s)
    \/ adminCreateUser_findOne(s)
    \/ adminDeleteUser_getRequiredUser(s)
    \/ adminDeleteUser_del(s)
    \/ adminGetUser_getRequiredUser(s)
    \/ adminUpdateUserAttributes_getRequiredUser(s)
    \/ adminUpdateUserAttributes_update(s)
    \/ adminSetUserPassword_getRequiredUser(s)
    \/ adminSetUserPassword_resetPassword(s)
    \/ adminSetUserPassword_getRequiredUser2(s)
    \/ adminSetUserPassword_update(s)
    \/ adminEnableUser_getRequiredUser(s)
    \/ adminEnableUser_update(s)
    \/ adminDisableUser_getRequiredUser(s)
    \/ adminDisableUser_update(s)
    \/ adminConfirmSignUp_getRequiredUser(s)
    \/ adminConfirmSignUp_update(s)
    \/ adminDeleteUserAttributes_getRequiredUser(s)
    \/ adminDeleteUserAttributes_update(s)
    \/ adminResetUserPassword_getRequiredUser(s)
    \/ adminResetUserPassword_update(s)
    \/ adminResetUserPassword_executeActionsEmail(s)
    \/ adminUserGlobalSignOut_getRequiredUser(s)
    \/ adminUserGlobalSignOut_logout(s)

----------------------------------------------------------------------------
(* Listings and group handlers (users.ts listUsers, groups.ts): what they   *)
(* compute                                                                  *)

DefaultLimit == 60

NaN == 0 - 1

\* parseInt(s, 10) of a decimal string
parseInt(s) ==
    IF \E n \in 0..(MaxItems + DefaultLimit) : ToString(n) = s
    THEN CHOOSE n \in 0..(MaxItems + DefaultLimit) : ToString(n) = s
    ELSE NaN

\* Limit || 60
EffectiveLimit(Limit) == IF TruthyNum(Limit) THEN Get(Limit) ELSE DefaultLimit

\* the offset as a mutant that ignores the token
Offset_fromStart(token) == 0

\* token ? parseInt(token, 10) : 0
Offset(token) == IF TruthyStr(token) THEN parseInt(Get(token)) ELSE 0

\* Filter.match(/email\s*=\s*"([^"]+)"/)?.[1] on a filter given as
\* <<attribute, operator, value>>
emailMatch(Filter) ==
    IF IsDefined(Filter) /\ Get(Filter)[1] = "email" /\ Get(Filter)[2] = "="
       /\ Get(Filter)[3] # ""
    THEN Some(Get(Filter)[3]) ELSE Absent

\* Filter.match(/username\s*(?:\^=|=)\s*"([^"]+)"/)?.[1]
usernameMatch(Filter) ==
    IF IsDefined(Filter) /\ Get(Filter)[1] = "username"
       /\ Get(Filter)[2] \in {"^=", "="} /\ Get(Filter)[3] # ""
    THEN Some(Get(Filter)[3]) ELSE Absent

\* listUsers with a token whenever the page is not empty
listUsersResponse_nonEmpty(r, users) ==
    [Users |-> [k \in 1..Len(users) |-> keycloakToCognitoUser(users[k])],
     PaginationToken |->
        IF Len(users) > 0
        THEN Some(ToString(Offset(r.PaginationToken) + EffectiveLimit(r.Limit)))
        ELSE Absent]

\* listUsers: the response for the page fetched
listUsersResponse(r, users) ==
    [Users |-> [k \in 1..Len(users) |-> keycloakToCognitoUser(users[k])],
     PaginationToken |->
        IF Len(users) = EffectiveLimit(r.Limit)
        THEN Some(ToString(Offset(r.PaginationToken) + EffectiveLimit(r.Limit)))
        ELSE Absent]

\* attributes.key?.[0]
FirstValue(attributes, key) ==
    IF key \in DOMAIN attributes /\ Len(attributes[key]) > 0
    THEN Some(attributes[key][1]) ELSE Absent

\* groups.ts keycloakToCognitoGroup
keycloakToCognitoGroup(group, now) ==
    LET attributes == IF IsDefined(group.attributes) THEN Get(group.attributes)
                      ELSE EmptyMap
    IN [GroupName |-> group.name,
        Description |-> FirstValue(attributes, "description"),
        Precedence |-> IF TruthyStr(FirstValue(attributes, "precedence"))
                       THEN Some(parseInt(Get(FirstValue(attributes, "precedence"))))
                       ELSE Absent,
        RoleArn |-> FirstValue(attributes, "roleArn"),
        CreationDate |-> now,
        LastModifiedDate |-> now]

\* listGroups: the response for the page fetched
listGroupsResponse(r, groups, now) ==
    [Groups |-> [k \in 1..Len(groups) |-> keycloakToCognitoGroup(groups[k], now)],
     NextToken |->
        IF Len(groups) = EffectiveLimit(r.Limit)
        THEN Some(ToString(Offset(r.NextToken) + EffectiveLimit(r.Limit)))
        ELSE Absent]

\* listUsersInGroup: the response for the page fetched
listUsersInGroupResponse(r, members) ==
    [Users |-> [k \in 1..Len(members) |-> groups_keycloakToCognitoUser(members[k])],
     NextToken |->
        IF Len(members) = EffectiveLimit(r.Limit)
        THEN Some(ToString(Offset(r.NextToken) + EffectiveLimit(r.Limit)))
        ELSE Absent]

\* adminListGroupsForUser: the response for all the user's groups and the
\* full representations of the page sliced from them
adminListGroupsForUserResponse(r, groups, fullGroups, now) ==
    [Groups |-> [k \in 1..Len(fullGroups) |->
                    keycloakToCognitoGroup(fullGroups[k], now)],
     NextToken |->
        IF Offset(r.NextToken) + EffectiveLimit(r.Limit) < Len(groups)
        THEN Some(ToString(Offset(r.NextToken) + EffectiveLimit(r.Limit)))
        ELSE Absent]

\* requireGroupName(groupName): true when it throws
requireGroupNameThrows(groupName) == ~TruthyName(groupName)

\* the exact match as a mutant that takes every group the search returns
ExactMatch_anyHit(groups, groupName) == groups

\* groups.find((g) => g.name === groupName)
ExactMatch(groups, groupName) ==
    SelectSeq(groups, LAMBDA g : g.name = Some(groupName))

\* getRequiredGroup that takes the first group the search returns
getRequiredGroup_firstHit(groups, groupName) ==
    LET found == KcFindGroupsSearch(groups, groupName)
    IN IF found = <<>> \/ ~TruthyStr(found[1].id) THEN Absent ELSE Some(found[1])

\* getRequiredGroup(groupName): the group found, or Absent when it throws
getRequiredGroup(groups, groupName) ==
    LET hits == ExactMatch(KcFindGroupsSearch(groups, groupName), groupName)
    IN IF hits = <<>> \/ ~TruthyStr(hits[1].id) THEN Absent ELSE Some(hits[1])

\* createGroup: the attributes built from the request
createGroupAttributes(r) ==
    Spread(Spread(IF TruthyStr(r.Description)
                    THEN [k \in {"description"} |-> <<Get(r.Description)>>]
                    ELSE EmptyMap,
                  IF IsDefined(r.Precedence)
                    THEN [k \in {"precedence"} |-> <<ToString(Get(r.Precedence))>>]
                    ELSE EmptyMap),
           IF TruthyStr(r.RoleArn)
             THEN [k \in {"roleArn"} |-> <<Get(r.RoleArn)>>]
             ELSE EmptyMap)

\* description/roleArn of updateGroup: set when given, deleted when ""
Replaced(attributes, key, value) ==
    IF ~IsDefined(value) THEN attributes
    ELSE IF Get(value) # "" THEN Spread(attributes, [k \in {key} |-> <<Get(value)>>])
    ELSE DeleteKey(attributes, key)

\* updateGroup: the attributes built from the existing group and the request
updateGroupAttributes(existingGroup, r) ==
    LET existingAttributes ==
            IF IsDefined(existingGroup) /\ IsDefined(Get(existingGroup).attributes)
            THEN Get(Get(existingGroup).attributes) ELSE EmptyMap
        described == Replaced(existingAttributes, "description", r.Description)
        ranked == IF IsDefined(r.Precedence)
                  THEN Spread(described,
                         [k \in {"precedence"} |-> <<ToString(Get(r.Precedence))>>])
                  ELSE described
    IN Replaced(ranked, "roleArn", r.RoleArn)

\* { Group: group ? keycloakToCognitoGroup(group) : undefined }
GroupResponse(group, now) ==
    [Group |-> IF IsDefined(group) THEN Some(keycloakToCognitoGroup(Get(group), now))
               ELSE Absent]

----------------------------------------------------------------------------
(* Listings and group handlers: one action per backend call *)

listUsers_find(s) ==
    LET r == req[s]
        users == KcFindUsers(kcUsers, Offset(r.PaginationToken),
                             EffectiveLimit(r.Limit),
                             emailMatch(r.Filter), usernameMatch(r.Filter))
    IN /\ At(s, "ListUsers", "users.find")
       /\ SetReq(s, Respond(r, Ok(listUsersResponse(r, users))))
       /\ UNCHANGED <<backendVars, clientVars, otherVars>>

listGroups_find(s) ==
    LET r == req[s]
        groups == KcFindGroups(kcGroups, Offset(r.NextToken), EffectiveLimit(r.Limit))
    IN /\ At(s, "ListGroups", "groups.find")
       /\ SetReq(s, Respond(r, Ok(listGroupsResponse(r, groups, clock))))
       /\ UNCHANGED <<backendVars, clientVars, otherVars>>

listUsersInGroup_getRequiredGroup(s) ==
    LET r == req[s]
        group == getRequiredGroup(kcGroups, Get(r.GroupName))
    IN /\ At(s, "ListUsersInGroup", "getRequiredGroup")
       /\ SetReq(s, IF IsDefined(group)
                    THEN Goto([r EXCEPT !.group = group], "groups.listMembers")
                    ELSE Respond(r, GroupNotFound))
       /\ UNCHANGED <<backendVars, clientVars, otherVars>>

\* GET /groups/{id}/members: 404 when the group is gone
listUsersInGroup_listMembers(s) ==
    LET r == req[s]
        id == Get(Get(r.group).id)
        members == KcListMembers(kcUsers, kcMembers, id, Offset(r.NextToken),
                                 EffectiveLimit(r.Limit))
    IN /\ At(s, "ListUsersInGroup", "groups.listMembers")
       /\ SetReq(s, IF IsDefined(KcFindOneGroup(kcGroups, id))
                    THEN Respond(r, Ok(listUsersInGroupResponse(r, members)))
                    ELSE Respond(r, NetworkError(404)))
       /\ UNCHANGED <<backendVars, clientVars, otherVars>>

adminListGroupsForUser_getRequiredUser(s) ==
    LET r == req[s]
        user == getRequiredUser(kcUsers, Get(r.Username))
    IN /\ At(s, "AdminListGroupsForUser", "getRequiredUser")
       /\ SetReq(s, IF IsDefined(user)
                    THEN Goto([r EXCEPT !.user = user], "users.listGroups")
                    ELSE Respond(r, UserNotFound))
       /\ UNCHANGED <<backendVars, clientVars, otherVars>>

\* GET /users/{id}/groups: 404 when the user is gone; the page is sliced from
\* the answer
adminListGroupsForUser_listGroups(s) ==
    LET r == req[s]
        id == Get(Get(r.user).id)
        groups == KcListGroupsOfUser(kcGroups, kcMembers, id)
        paginatedGroups == Page(groups, Offset(r.NextToken), EffectiveLimit(r.Limit))
    IN /\ At(s, "AdminListGroupsForUser", "users.listGroups")
       /\ SetReq(s, IF IsDefined(KcFindOneUser(kcUsers, id))
                    THEN Goto([r EXCEPT !.group =
                                  Some([groups |-> groups,
                                        paginatedGroups |-> paginatedGroups])],
                              "groups.findOne")
                    ELSE Respond(r, NetworkError(404)))
       /\ UNCHANGED <<backendVars, clientVars, otherVars>>

\* Promise.all of groups.findOne over the page: fullGroup ?? group
adminListGroupsForUser_findOne(s) ==
    LET r == req[s]
        groups == Get(r.group).groups
        paginatedGroups == Get(r.group).paginatedGroups
        fullGroups ==
            [k \in 1..Len(paginatedGroups) |->
                LET group == paginatedGroups[k]
                    fullGroup == KcFindOneGroup(kcGroups, Get(group.id))
                IN IF IsDefined(fullGroup) THEN Get(fullGroup) ELSE group]
    IN /\ At(s, "AdminListGroupsForUser", "groups.findOne")
       /\ SetReq(s, Respond(r, Ok(adminListGroupsForUserResponse(
                                     r, groups, fullGroups, clock))))
       /\ UNCHANGED <<backendVars, clientVars, otherVars>>

createGroup_find(s) ==
    LET r == req[s]
        existingGroups == KcFindGroupsSearch(kcGroups, Get(r.GroupName))
        existingGroup == ExactMatch(existingGroups, Get(r.GroupName))
    IN /\ At(s, "CreateGroup", "groups.find")
       /\ SetReq(s, IF existingGroup # <<>>
                    THEN Respond(r, GroupExists)
                    ELSE Goto([r EXCEPT !.group =
                                  Some([id |-> Absent, name |-> r.GroupName,
                                        attributes |-> Some(createGroupAttributes(r))])],
                              "groups.create"))
       /\ UNCHANGED <<backendVars, clientVars, otherVars>>

\* POST /groups: a 409 is a NetworkError the handler does not catch
createGroup_create(s) ==
    LET r == req[s]
        body == Get(r.group)
        id == ToString(nextGroupId)
    IN /\ At(s, "CreateGroup", "groups.create")
       /\ IF KcCreateGroupConflicts(kcGroups, body)
          THEN /\ SetReq(s, Respond([Wrote(r) EXCEPT !.conflict = TRUE],
                                    NetworkError(409)))
               /\ UNCHANGED <<kcGroups, nextGroupId>>
          ELSE /\ nextGroupId <= MaxGroupIds
               /\ kcGroups' = [kcGroups EXCEPT ![id] = Some(KcCreatedGroup(body, id))]
               /\ nextGroupId' = nextGroupId + 1
               /\ SetReq(s, Goto([Wrote(r) EXCEPT !.group = Some([body EXCEPT !.id = Some(id)])],
                                 "groups.findOne"))
       /\ UNCHANGED <<kcUsers, kcMembers, nextUserId, clientVars, otherVars>>

createGroup_findOne(s) ==
    LET r == req[s]
        createdGroup == KcFindOneGroup(kcGroups, Get(Get(r.group).id))
    IN /\ At(s, "CreateGroup", "groups.findOne")
       /\ SetReq(s, Respond(r, Ok(GroupResponse(createdGroup, clock))))
       /\ UNCHANGED <<backendVars, clientVars, otherVars>>

deleteGroup_getRequiredGroup(s) ==
    LET r == req[s]
        group == getRequiredGroup(kcGroups, Get(r.GroupName))
    IN /\ At(s, "DeleteGroup", "getRequiredGroup")
       /\ SetReq(s, IF IsDefined(group)
                    THEN Goto([r EXCEPT !.group = group], "groups.del")
                    ELSE Respond(r, GroupNotFound))
       /\ UNCHANGED <<backendVars, clientVars, otherVars>>

\* DELETE /groups/{id}: 404 when the group is gone
deleteGroup_del(s) ==
    LET r == req[s]
        id == Get(Get(r.group).id)
    IN /\ At(s, "DeleteGroup", "groups.del")
       /\ IF IsDefined(KcFindOneGroup(kcGroups, id))
          THEN /\ kcGroups' = [kcGroups EXCEPT ![id] = Absent]
               /\ kcMembers' = {m \in kcMembers : m[2] # id}
               /\ SetReq(s, Respond(Wrote(r), Ok(EmptyMap)))
          ELSE /\ SetReq(s, Respond(Wrote(r), NetworkError(404)))
               /\ UNCHANGED <<kcGroups, kcMembers>>
       /\ UNCHANGED <<kcUsers, nextUserId, nextGroupId, clientVars, otherVars>>

getGroup_find(s) ==
    LET r == req[s]
        groups == KcFindGroupsSearch(kcGroups, Get(r.GroupName))
        group == ExactMatch(groups, Get(r.GroupName))
    IN /\ At(s, "GetGroup", "groups.find")
       /\ SetReq(s, IF group = <<>> \/ ~TruthyStr(group[1].id)
                    THEN Respond(r, GroupNotFound)
                    ELSE Goto([r EXCEPT !.group = Some(group[1])], "groups.findOne"))
       /\ UNCHANGED <<backendVars, clientVars, otherVars>>

getGroup_findOne(s) ==
    LET r == req[s]
        fullGroup == KcFindOneGroup(kcGroups, Get(Get(r.group).id))
    IN /\ At(s, "GetGroup", "groups.findOne")
       /\ SetReq(s, Respond(r, Ok(GroupResponse(fullGroup, clock))))
       /\ UNCHANGED <<backendVars, clientVars, otherVars>>

updateGroup_getRequiredGroup(s) ==
    LET r == req[s]
        group == getRequiredGroup(kcGroups, Get(r.GroupName))
    IN /\ At(s, "UpdateGroup", "getRequiredGroup")
       /\ SetReq(s, IF IsDefined(group)
                    THEN Goto([r EXCEPT !.group = group], "groups.findOne")
                    ELSE Respond(r, GroupNotFound))
       /\ UNCHANGED <<backendVars, clientVars, otherVars>>

\* the existing group is read and the payload of groups.update is built
updateGroup_findOne(s) ==
    LET r == req[s]
        group == Get(r.group)
        existingGroup == KcFindOneGroup(kcGroups, Get(group.id))
    IN /\ At(s, "UpdateGroup", "groups.findOne")
       /\ SetReq(s, Goto([r EXCEPT !.group =
                             Some([group EXCEPT !.attributes =
                                      Some(updateGroupAttributes(existingGroup, r))])],
                         "groups.update"))
       /\ UNCHANGED <<backendVars, clientVars, otherVars>>

\* PUT /groups/{id}: 404 when the group is gone
updateGroup_update(s) ==
    LET r == req[s]
        group == Get(r.group)
        id == Get(group.id)
    IN /\ At(s, "UpdateGroup", "groups.update")
       /\ IF IsDefined(KcFindOneGroup(kcGroups, id))
          THEN /\ kcGroups' = [kcGroups EXCEPT ![id] = Some(KcUpdatedGroup(Get(@), group))]
               /\ SetReq(s, Goto(Wrote(r), "groups.findOne.2"))
          ELSE /\ kcGroups' = kcGroups
               /\ SetReq(s, Respond(Wrote(r), NetworkError(404)))
       /\ UNCHANGED <<kcUsers, kcMembers, nextUserId, nextGroupId, clientVars, otherVars>>

updateGroup_findOne2(s) ==
    LET r == req[s]
        updatedGroup == KcFindOneGroup(kcGroups, Get(Get(r.group).id))
    IN /\ At(s, "UpdateGroup", "groups.findOne.2")
       /\ SetReq(s, Respond(r, Ok(GroupResponse(updatedGroup, clock))))
       /\ UNCHANGED <<backendVars, clientVars, otherVars>>

\* the synchronous code of a listing or group handler after authenticate()
\* has returned
\* adminAddUserToGroup / adminRemoveUserFromGroup: the user is looked up first
adminAddUserToGroup_getRequiredUser(s) ==
    LET r == req[s]
        user == getRequiredUser(kcUsers, Get(r.Username))
    IN /\ r.action \in {"AdminAddUserToGroup", "AdminRemoveUserFromGroup"}
       /\ r.pc = "getRequiredUser"
       /\ SetReq(s, IF IsDefined(user)
                    THEN Goto([r EXCEPT !.user = user], "getRequiredGroup")
                    ELSE Respond(r, UserNotFound))
       /\ UNCHANGED <<backendVars, clientVars, otherVars>>

\* then the group
adminAddUserToGroup_getRequiredGroup(s) ==
    LET r == req[s]
        group == getRequiredGroup(kcGroups, Get(r.GroupName))
    IN /\ r.action \in {"AdminAddUserToGroup", "AdminRemoveUserFromGroup"}
       /\ r.pc = "getRequiredGroup"
       /\ SetReq(s, IF ~IsDefined(group) THEN Respond(r, GroupNotFound)
                    ELSE IF r.action = "AdminAddUserToGroup"
                    THEN Goto([r EXCEPT !.group = group], "users.addToGroup")
                    ELSE Goto([r EXCEPT !.group = group], "users.delFromGroup"))
       /\ UNCHANGED <<backendVars, clientVars, otherVars>>

\* a removal that takes the user out of every group
adminRemoveUserFromGroup_delFromGroup_everyGroup(s) ==
    LET r == req[s]
        id == Get(Get(r.user).id)
    IN /\ At(s, "AdminRemoveUserFromGroup", "users.delFromGroup")
       /\ kcMembers' = {m \in kcMembers : m[1] # id}
       /\ SetReq(s, Respond(Wrote(r), Ok(EmptyMap)))
       /\ UNCHANGED <<kcUsers, kcGroups, nextUserId, nextGroupId, clientVars,
                      otherVars>>

\* PUT /users/{id}/groups/{groupId}: 404 when the user or the group is gone
adminAddUserToGroup_addToGroup(s) ==
    LET r == req[s]
        id == Get(Get(r.user).id)
        groupId == Get(Get(r.group).id)
    IN /\ At(s, "AdminAddUserToGroup", "users.addToGroup")
       /\ IF IsDefined(KcFindOneUser(kcUsers, id))
             /\ IsDefined(KcFindOneGroup(kcGroups, groupId))
          THEN /\ kcMembers' = kcMembers \cup {<<id, groupId>>}
               /\ SetReq(s, Respond(Wrote(r), Ok(EmptyMap)))
          ELSE /\ SetReq(s, Respond(Wrote(r), NetworkError(404)))
               /\ UNCHANGED kcMembers
       /\ UNCHANGED <<kcUsers, kcGroups, nextUserId, nextGroupId, clientVars,
                      otherVars>>

\* DELETE /users/{id}/groups/{groupId}: 404 when the user or the group is gone
adminRemoveUserFromGroup_delFromGroup(s) ==
    LET r == req[s]
        id == Get(Get(r.user).id)
        groupId == Get(Get(r.group).id)
    IN /\ At(s, "AdminRemoveUserFromGroup", "users.delFromGroup")
       /\ IF IsDefined(KcFindOneUser(kcUsers, id))
             /\ IsDefined(KcFindOneGroup(kcGroups, groupId))
          THEN /\ kcMembers' = kcMembers \ {<<id, groupId>>}
               /\ SetReq(s, Respond(Wrote(r), Ok(EmptyMap)))
          ELSE /\ SetReq(s, Respond(Wrote(r), NetworkError(404)))
               /\ UNCHANGED kcMembers
       /\ UNCHANGED <<kcUsers, kcGroups, nextUserId, nextGroupId, clientVars,
                      otherVars>>

\* the entry of a membership handler that skips requireGroupName
membershipEntry_usernameOnly(r) ==
    IF requireUsernameThrows(r.Username) THEN Respond(r, UsernameMissing)
    ELSE Goto(r, "getRequiredUser")

\* adminAddUserToGroup / adminRemoveUserFromGroup: requireUsername, then
\* requireGroupName
membershipEntry(r) ==
    IF requireUsernameThrows(r.Username) THEN Respond(r, UsernameMissing)
    ELSE IF requireGroupNameThrows(r.GroupName) THEN Respond(r, GroupNameMissing)
    ELSE Goto(r, "getRequiredUser")

GroupHandlerEntry(r, now) ==
    IF r.action = "ListUsers" THEN Goto(r, "users.find")
    ELSE IF r.action = "ListGroups" THEN Goto(r, "groups.find")
    ELSE IF r.action = "AdminListGroupsForUser"
         THEN IF requireUsernameThrows(r.Username) THEN Respond(r, UsernameMissing)
              ELSE Goto(r, "getRequiredUser")
    ELSE IF r.action \in {"AdminAddUserToGroup", "AdminRemoveUserFromGroup"}
         THEN membershipEntry(r)
    ELSE IF requireGroupNameThrows(r.GroupName) THEN Respond(r, GroupNameMissing)
    ELSE IF r.action \in {"CreateGroup", "GetGroup"} THEN Goto(r, "groups.find")
    ELSE Goto(r, "getRequiredGroup")

----------------------------------------------------------------------------
(* describeUserPool (user-pool.ts)                                          *)

UserPoolName == "Local Development Pool"

\* `User pool ${request.UserPoolId} does not exist.`
UserPoolNotFound(UserPoolId) ==
    CognitoException("ResourceNotFoundException",
        "User pool " \o (IF IsDefined(UserPoolId) THEN Get(UserPoolId) ELSE "undefined")
            \o " does not exist.",
        400)

\* request.UserPoolId !== config.userPool.id, tested before authenticate()
describeUserPoolRejects(r) ==
    r.action = "DescribeUserPool" /\ r.UserPoolId # Some(PoolRealm)

\* the descriptor: fixed fields, the two dates taken at the call, and the
\* user count read from the backend
UserPoolDescriptor(userCount, now) ==
    [Id |-> PoolRealm,
     Name |-> UserPoolName,
     Policies |->
        [PasswordPolicy |->
            [MinimumLength |-> 8, RequireUppercase |-> TRUE,
             RequireLowercase |-> TRUE, RequireNumbers |-> TRUE,
             RequireSymbols |-> TRUE, TemporaryPasswordValidityDays |-> 7],
         SignInPolicy |-> [AllowedFirstAuthFactors |-> <<"PASSWORD">>]],
     DeletionProtection |-> "ACTIVE",
     LambdaConfig |-> EmptyMap,
     LastModifiedDate |-> now,
     CreationDate |-> now,
     SchemaAttributes |-> SCHEMA_ATTRIBUTES,
     AutoVerifiedAttributes |-> <<"email">>,
     VerificationMessageTemplate |-> [DefaultEmailOption |-> "CONFIRM_WITH_CODE"],
     UserAttributeUpdateSettings |->
        [AttributesRequireVerificationBeforeUpdate |-> <<>>],
     MfaConfiguration |-> "OFF",
     EstimatedNumberOfUsers |-> userCount,
     EmailConfiguration |-> [EmailSendingAccount |-> "COGNITO_DEFAULT"],
     UserPoolTags |-> EmptyMap,
     Domain |-> "local_domain",
     AdminCreateUserConfig |->
        [AllowAdminCreateUserOnly |-> TRUE, UnusedAccountValidityDays |-> 7],
     UsernameConfiguration |-> [CaseSensitive |-> FALSE],
     Arn |-> "arn:aws:cognito-idp:local_region:userpool/" \o PoolRealm,
     AccountRecoverySetting |->
        [RecoveryMechanisms |->
            <<[Priority |-> 1, Name |-> "verified_email"],
              [Priority |-> 2, Name |-> "verified_phone_number"]>>],
     UserPoolTier |-> "ESSENTIALS"]

\* users.count()
KcCountUsers(users) == Cardinality(KcUsers(users))

describeUserPool_count(s) ==
    LET r == req[s]
    IN /\ At(s, "DescribeUserPool", "users.count")
       /\ SetReq(s, Respond(r, Ok([UserPool |->
                        UserPoolDescriptor(KcCountUsers(kcUsers), clock)])))
       /\ UNCHANGED <<backendVars, clientVars, otherVars>>

----------------------------------------------------------------------------
(* The shared backend client (keycloak/client.ts) and the dispatcher's      *)
(* hand-over to a handler                                                   *)

GroupActions ==
    {"AdminListGroupsForUser", "AdminAddUserToGroup", "AdminRemoveUserFromGroup",
     "CreateGroup", "DeleteGroup", "GetGroup", "ListGroups", "ListUsersInGroup",
     "UpdateGroup"}

\* the handler's code from the return of authenticate() to its first await
HandlerEntry(r, now) ==
    IF r.action \in UserActions THEN UserHandlerEntry(r, now)
    ELSE IF r.action = "DescribeUserPool" THEN Goto(r, "users.count")
    ELSE GroupHandlerEntry(r, now)

\* dispatchAction invokes the handler, which calls authenticate(): with the
\* flag set it returns at once, otherwise it points the client at the master
\* realm and awaits the login.  A request takes the lowest free slot.
Receive(s, r) ==
    /\ req[s].pc = "idle"
    /\ \A t \in Slots : t < s => req[t].pc # "idle"
    /\ IF describeUserPoolRejects(r)
       THEN /\ SetReq(s, Respond(r, UserPoolNotFound(r.UserPoolId)))
            /\ UNCHANGED clientVars
       ELSE IF isAuthenticated
       THEN /\ SetReq(s, HandlerEntry(r, clock))
            /\ UNCHANGED clientVars
       ELSE /\ SetReq(s, Goto(r, "keycloakClient.auth"))
            /\ realmName' = MasterRealm
            /\ UNCHANGED <<isAuthenticated, kcAccessToken>>
    /\ UNCHANGED <<backendVars, otherVars>>

\* the login as a mutant that does not switch the client back
authenticate_auth_staysMaster(s) ==
    /\ req[s].pc = "keycloakClient.auth"
    /\ isAuthenticated' = TRUE
    /\ kcAccessToken' = Some(clock)
    /\ realmName' = realmName
    /\ SetReq(s, HandlerEntry(req[s], clock))
    /\ UNCHANGED <<backendVars, otherVars>>

\* the login succeeds: the flag is set and the client switched back
authenticate_auth(s) ==
    /\ req[s].pc = "keycloakClient.auth"
    /\ isAuthenticated' = TRUE
    /\ kcAccessToken' = Some(clock)
    /\ realmName' = PoolRealm
    /\ SetReq(s, HandlerEntry(req[s], clock))
    /\ UNCHANGED <<backendVars, otherVars>>

\* the login fails: authenticate() throws with the client left as it is
authenticate_authFails(s) ==
    /\ req[s].pc = "keycloakClient.auth"
    /\ SetReq(s, Respond(req[s], InternalError("auth")))
    /\ UNCHANGED <<backendVars, clientVars, otherVars>>

\* the response is sent and the slot is free again
Deliver(s) ==
    /\ req[s].pc = "done"
    /\ SetReq(s, IdleReq)
    /\ UNCHANGED <<backendVars, clientVars, otherVars>>

\* The life-cycle scenario: create u1 with an e-mail, set a permanent
\* password, disable, enable, delete, each step successful, with any number
\* of AdminGetUser calls in between.  stage counts the steps done so far and
\* is OffScenario once the run has left the scenario.
OffScenario == 0 - 1

ScenarioStep(r) ==
    IF Get(r.resp).status # 200 \/ r.Username # Some("u1") THEN "other"
    ELSE IF r.action = "AdminCreateUser"
            /\ getAttributeValue(r.UserAttributes, Name("email")) = Some("u1@x.com")
         THEN "create"
    ELSE IF r.action = "AdminSetUserPassword" /\ r.Permanent = Some(TRUE)
         THEN "setPermanentPassword"
    ELSE IF r.action = "AdminDisableUser" THEN "disable"
    ELSE IF r.action = "AdminEnableUser" THEN "enable"
    ELSE IF r.action = "AdminDeleteUser" THEN "delete"
    ELSE "other"

ScenarioOrder == <<"create", "setPermanentPassword", "disable", "enable", "delete">>

ScenarioNext(st, r) ==
    IF r.action = "AdminGetUser" THEN st
    ELSE IF st # OffScenario /\ st < Len(ScenarioOrder)
            /\ ScenarioStep(r) = ScenarioOrder[st + 1]
         THEN st + 1
    ELSE OffScenario

\* Deliver, with the scenario's progress recorded
DeliverInScenario(s) ==
    /\ req[s].pc = "done"
    /\ SetReq(s, IdleReq)
    /\ stage' = ScenarioNext(stage, req[s])
    /\ UNCHANGED <<backendVars, clientVars, cacheVars, clock, probe>>

Tick ==
    /\ clock < MaxClock
    /\ clock' = clock + 1
    /\ UNCHANGED <<backendVars, clientVars, cacheVars, req, stage, probe>>

----------------------------------------------------------------------------
(* Request bodies *)

Attr(name, value) == [Name |-> Some(name), Value |-> Some(value)]

Request(action) == [IdleReq EXCEPT !.action = action]

U1 == Some("u1")
Email1 == "u1@x.com"

CreateUserRequests ==
    {[Request("AdminCreateUser") EXCEPT
        !.Username = U1, !.UserAttributes = Some(<<Attr(Name("email"), Email1)>>)],
     [Request("AdminCreateUser") EXCEPT
        !.Username = U1, !.TemporaryPassword = Some("Temp1")],
     [Request("AdminCreateUser") EXCEPT
        !.Username = U1, !.MessageAction = Some("SUPPRESS"),
        !.UserAttributes = Some(<<Attr(Name("email"), Email1),
                                  Attr(Name("given_name"), "Ann"),
                                  Attr(Custom("dept"), "d1")>>)]}

UsernameOnlyRequests ==
    {[Request(a) EXCEPT !.Username = u] :
        a \in {"AdminDeleteUser", "AdminGetUser", "AdminEnableUser",
               "AdminDisableUser", "AdminConfirmSignUp", "AdminResetUserPassword",
               "AdminUserGlobalSignOut"},
        u \in {U1}}

InvalidUsernameRequests ==
    {[Request(a) EXCEPT !.Username = u] :
        a \in {"AdminGetUser", "AdminCreateUser"}, u \in {Absent, Some("")}}

UpdateAttributeLists ==
    {<<Attr(Name("given_name"), "Bob")>>,
     <<Attr(Name("sub"), "x")>>,
     <<Attr(Custom("dept"), "d2"), Attr(Name("sub"), "x")>>}

UpdateAttributesRequests ==
    {[Request("AdminUpdateUserAttributes") EXCEPT
        !.Username = U1, !.UserAttributes = Some(l)] : l \in UpdateAttributeLists}
    \cup {[Request("AdminUpdateUserAttributes") EXCEPT !.Username = U1]}

DeleteAttributeLists ==
    {<<>>,
     <<Name("given_name")>>,
     <<Custom("dept")>>,
     <<Name("sub")>>,
     <<Name("email")>>,
     <<Name("email"), Name("sub")>>,
     <<Name("sub"), Name("email")>>,
     <<Name("given_name"), Name("sub")>>,
     <<Custom("dept"), Name("email")>>}

DeleteAttributesRequests ==
    {[Request("AdminDeleteUserAttributes") EXCEPT
        !.Username = U1, !.UserAttributeNames = Some(l)] : l \in DeleteAttributeLists}

SetPasswordRequests ==
    {[Request("AdminSetUserPassword") EXCEPT
        !.Username = U1, !.Password = Some("Pass1"), !.Permanent = p] :
        p \in {Absent, Some(TRUE), Some(FALSE)}}
    \cup {[Request("AdminSetUserPassword") EXCEPT !.Username = U1]}

UserRequests ==
    CreateUserRequests \cup UsernameOnlyRequests \cup InvalidUsernameRequests
    \cup UpdateAttributesRequests \cup DeleteAttributesRequests
    \cup SetPasswordRequests

----------------------------------------------------------------------------
(* Specifications *)

NoUsers == [i \in UserIds |-> Absent]
NoGroups == [i \in GroupIds |-> Absent]
NoProbe == [fn |-> "none"]

Callers == 1..NumSlots
IdleCall == [pc |-> "idle"]

\* nothing cached, no login answered, no call in flight
InitCache ==
    /\ accessToken = Absent
    /\ tokenExpiresAt = 0
    /\ clients = EmptyMap
    /\ logins = 0
    /\ callers = [c \in Callers |-> IdleCall]

InitEmpty ==
    /\ kcUsers = NoUsers
    /\ kcGroups = NoGroups
    /\ kcMembers = {}
    /\ nextUserId = 1
    /\ nextGroupId = 1
    /\ isAuthenticated = FALSE
    /\ kcAccessToken = Absent
    /\ InitCache
    /\ realmName = PoolRealm
    /\ clock = 1
    /\ req = [s \in Slots |-> IdleReq]
    /\ stage = 0
    /\ probe = NoProbe

\* the user handlers, one request at a time
SeqStep ==
    \/ \E r \in UserRequests : Receive(1, r)
    \/ authenticate_auth(1)
    \/ authenticate_authFails(1)
    \/ UserHandlerStep(1)
    \/ DeliverInScenario(1)
    \/ Tick

NextSeq == SeqStep

SpecSeq == InitEmpty /\ [][NextSeq]_vars

\* the requests that race in the concurrent specification
ConcurrentRequests ==
    {[Request("AdminCreateUser") EXCEPT
        !.Username = U1, !.UserAttributes = Some(<<Attr(Name("email"), Email1)>>)],
     [Request("AdminCreateUser") EXCEPT
        !.Username = U1, !.TemporaryPassword = Some("Temp1")],
     [Request("AdminDisableUser") EXCEPT !.Username = U1],
     [Request("AdminDeleteUser") EXCEPT !.Username = U1]}

\* creating, disabling and deleting a user, with the requests of all slots
\* interleaved at their awaits
Next ==
    \/ \E s \in Slots, r \in ConcurrentRequests : Receive(s, r)
    \/ \E s \in Slots : authenticate_auth(s)
    \/ \E s \in Slots : authenticate_authFails(s)
    \/ \E s \in Slots : adminCreateUser_create(s)
    \/ \E s \in Slots : adminCreateUser_findOne(s)
    \/ \E s \in Slots : adminDisableUser_getRequiredUser(s)
    \/ \E s \in Slots : adminDisableUser_update(s)
    \/ \E s \in Slots : adminDeleteUser_getRequiredUser(s)
    \/ \E s \in Slots : adminDeleteUser_del(s)
    \/ \E s \in Slots : Deliver(s)

Spec == InitEmpty /\ [][Next]_vars

----------------------------------------------------------------------------
(* Group requests *)

G1 == <<"admin">>
G2 == <<"admin", "s">>

GroupNameRequests ==
    {[Request(a) EXCEPT !.GroupName = Some(G1)] :
        a \in {"DeleteGroup", "GetGroup", "ListUsersInGroup"}}

CreateGroupRequests ==
    {[Request("CreateGroup") EXCEPT
        !.GroupName = Some(G1), !.Description = Some("d1"), !.Precedence = Some(0)],
     [Request("CreateGroup") EXCEPT !.GroupName = Some(G2)]}

UpdateGroupRequests ==
    {[Request("UpdateGroup") EXCEPT !.GroupName = Some(G1), !.Description = Some("d2")]}

InvalidGroupNameRequests ==
    {[Request("GetGroup") EXCEPT !.GroupName = g] : g \in {Absent, Some(<<>>)}}

GroupRequests ==
    GroupNameRequests \cup CreateGroupRequests \cup UpdateGroupRequests
    \cup InvalidGroupNameRequests

GroupHandlerStep(s) ==
    \/ createGroup_find(s)
    \/ createGroup_create(s)
    \/ createGroup_findOne(s)
    \/ deleteGroup_getRequiredGroup(s)
    \/ deleteGroup_del(s)
    \/ getGroup_find(s)
    \/ getGroup_findOne(s)
    \/ updateGroup_getRequiredGroup(s)
    \/ updateGroup_findOne(s)
    \/ updateGroup_update(s)
    \/ updateGroup_findOne2(s)
    \/ listUsersInGroup_getRequiredGroup(s)
    \/ listUsersInGroup_listMembers(s)

\* the life of the group named G1: stage is 1 once a CreateGroup of it has
\* succeeded and 2 once a DeleteGroup of it has succeeded after that
GroupScenarioNext(st, r) ==
    IF r.GroupName # Some(G1) \/ Get(r.resp).status # 200 THEN st
    ELSE IF r.action = "CreateGroup" THEN 1
    ELSE IF r.action = "DeleteGroup" THEN 2
    ELSE st

\* Deliver, with the life of G1 recorded
DeliverInGroupScenario(s) ==
    /\ req[s].pc = "done"
    /\ SetReq(s, IdleReq)
    /\ stage' = GroupScenarioNext(stage, req[s])
    /\ UNCHANGED <<backendVars, clientVars, cacheVars, clock, probe>>

\* the group handlers, one request at a time
NextGroupSeq ==
    \/ \E r \in GroupRequests : Receive(1, r)
    \/ authenticate_auth(1)
    \/ authenticate_authFails(1)
    \/ GroupHandlerStep(1)
    \/ DeliverInGroupScenario(1)

SpecGroupSeq == InitEmpty /\ [][NextGroupSeq]_vars

\* the group handlers, with the requests of all slots interleaved at their
\* awaits
NextGroups ==
    \/ \E s \in Slots, r \in GroupRequests : Receive(s, r)
    \/ \E s \in Slots : authenticate_auth(s)
    \/ \E s \in Slots : authenticate_authFails(s)
    \/ \E s \in Slots : GroupHandlerStep(s)
    \/ \E s \in Slots : Deliver(s)

SpecGroups == InitEmpty /\ [][NextGroups]_vars

----------------------------------------------------------------------------
(* The status derivations applied to every backend representation *)

MaxActions == 2

RequiredActionNames == {UPDATE_PASSWORD, VERIFY_EMAIL, "CONFIGURE_TOTP"}

SeqsUpTo(S, n) == UNION {[1..k -> S] : k \in 0..n}

\* a UserRepresentation as the backend may return it: the enabled flag and
\* the requiredActions list are optional
Representation(enabled, requiredActions) ==
    [id |-> Some("1"), username |-> U1, email |-> Some(Email1),
     firstName |-> Absent, lastName |-> Absent,
     enabled |-> enabled, emailVerified |-> Some(FALSE),
     requiredActions |-> requiredActions,
     attributes |-> Absent, createdTimestamp |-> Some(1)]

Representations ==
    {Representation(e, a) :
        e \in {Absent, Some(TRUE), Some(FALSE)},
        a \in {Absent} \cup {Some(l) : l \in SeqsUpTo(RequiredActionNames, MaxActions)}}

StatusReporters == {"AdminGetUser", "ListUsers", "ListUsersInGroup"}

InitStatus ==
    /\ kcUsers = NoUsers
    /\ kcGroups = NoGroups
    /\ kcMembers = {}
    /\ nextUserId = 1
    /\ nextGroupId = 1
    /\ isAuthenticated = TRUE
    /\ kcAccessToken = Some(0)
    /\ InitCache
    /\ realmName = PoolRealm
    /\ clock = 1
    /\ req = [s \in Slots |-> IdleReq]
    /\ stage = 0
    /\ \E u \in Representations :
          probe = [user |-> u, out |-> [f \in StatusReporters |-> Absent]]

Reported(f, status) ==
    /\ probe.out[f] = Absent
    /\ probe' = [probe EXCEPT !.out[f] = Some(status)]
    /\ UNCHANGED <<backendVars, clientVars, cacheVars, req, clock, stage>>

\* adminGetUser reports the user found
adminGetUser_status ==
    Reported("AdminGetUser", adminGetUserResponse(probe.user).UserStatus)

\* listUsers reports users.map(keycloakToCognitoUser)
listUsers_status ==
    Reported("ListUsers", keycloakToCognitoUser(probe.user).UserStatus)

\* listUsersInGroup reports members.map(keycloakToCognitoUser) of groups.ts
listUsersInGroup_status ==
    Reported("ListUsersInGroup", groups_keycloakToCognitoUser(probe.user).UserStatus)

NextStatus ==
    \/ adminGetUser_status
    \/ listUsers_status
    \/ listUsersInGroup_status

SpecStatus == InitStatus /\ [][NextStatus]_vars

\* C1: for every backend representation the three reporters give the same
\* status; it is ARCHIVED when enabled is false whatever the required actions
\* are, FORCE_CHANGE_PASSWORD when enabled is true and the required actions
\* contain UPDATE_PASSWORD, CONFIRMED when enabled is true and they do not,
\* and it is one of these three values also when the enabled flag or the
\* requiredActions list is missing.
C1_StatusDerivation ==
    \A f \in StatusReporters :
        IsDefined(probe.out[f]) =>
            LET u == probe.user
                status == Get(probe.out[f])
            IN /\ status \in {"ARCHIVED", "FORCE_CHANGE_PASSWORD", "CONFIRMED"}
               /\ \A g \in StatusReporters :
                     IsDefined(probe.out[g]) => Get(probe.out[g]) = status
               /\ u.enabled = Some(FALSE) => status = "ARCHIVED"
               /\ (u.enabled = Some(TRUE) /\ HasUpdatePassword(u))
                     => status = "FORCE_CHANGE_PASSWORD"
               /\ (u.enabled = Some(TRUE) /\ ~HasUpdatePassword(u))
                     => status = "CONFIRMED"

\* a disabled user with a pending password update, reported by all three
C1_Witness ==
    /\ probe.user.enabled = Some(FALSE)
    /\ HasUpdatePassword(probe.user)
    /\ \A f \in StatusReporters : probe.out[f] = Some("ARCHIVED")

----------------------------------------------------------------------------
(* The life cycle of a user, one request at a time *)

IsDone(s, action) == req[s].pc = "done" /\ req[s].action = action

\* C2: in a sequential run, AdminGetUser after AdminCreateUser(u1, email)
\* returns the e-mail and FORCE_CHANGE_PASSWORD; after
\* AdminSetUserPassword(Permanent=true) it returns CONFIRMED; after
\* AdminDisableUser, Enabled=false and ARCHIVED; after AdminEnableUser,
\* Enabled=true; after AdminDeleteUser it fails with UserNotFoundException.
C2_LifeCycle ==
    \A s \in Slots :
        (IsDone(s, "AdminGetUser") /\ req[s].Username = U1 /\ stage \in 1..5) =>
            LET resp == Get(req[s].resp)
                user == Get(resp.body)
            IN /\ stage = 1 =>
                    /\ resp.status = 200
                    /\ getAttributeValue(Some(user.UserAttributes), Name("email"))
                          = Some(Email1)
                    /\ user.UserStatus = "FORCE_CHANGE_PASSWORD"
               /\ stage = 2 => resp.status = 200 /\ user.UserStatus = "CONFIRMED"
               /\ stage = 3 =>
                    /\ resp.status = 200
                    /\ user.Enabled = Some(FALSE)
                    /\ user.UserStatus = "ARCHIVED"
               /\ stage = 4 => resp.status = 200 /\ user.Enabled = Some(TRUE)
               /\ stage = 5 => resp = UserNotFound

\* the whole scenario has run and the last AdminGetUser has failed
C2_Witness ==
    /\ stage = 5
    /\ IsDone(1, "AdminGetUser")
    /\ req[1].Username = U1
    /\ Get(req[1].resp).type = "UserNotFoundException"

----------------------------------------------------------------------------
(* Attribute validation *)

NamesOf(r) ==
    IF r.action = "AdminDeleteUserAttributes" /\ IsDefined(r.UserAttributeNames)
    THEN Get(r.UserAttributeNames)
    ELSE IF r.action = "AdminUpdateUserAttributes" /\ IsDefined(r.UserAttributes)
    THEN [i \in DOMAIN Get(r.UserAttributes) |-> Get(Get(r.UserAttributes)[i].Name)]
    ELSE <<>>

\* name a occurs in the list and name b does not occur before its first
\* occurrence
NamedFirst(names, a, b) ==
    \E i \in 1..Len(names) :
        names[i] = a /\ \A j \in 1..(i - 1) : names[j] # b

\* the request in slot s has come back from a handler that found its user
AnsweredForExistingUser(s) ==
    /\ req[s].pc = "done"
    /\ IsDefined(req[s].Username)
    /\ IsDefined(getRequiredUser(kcUsers, Get(req[s].Username)))
    /\ Get(req[s].resp) # InternalError("auth")

ValidationError(resp, message) ==
    /\ resp.status = 400
    /\ resp.type = "InvalidParameterException"
    /\ resp.message = message

NamesSub(s) ==
    /\ req[s].action \in {"AdminDeleteUserAttributes", "AdminUpdateUserAttributes"}
    /\ Includes(NamesOf(req[s]), Name("sub"))
    /\ AnsweredForExistingUser(s)

NamesEmailToDelete(s) ==
    /\ req[s].action = "AdminDeleteUserAttributes"
    /\ Includes(NamesOf(req[s]), Name("email"))
    /\ AnsweredForExistingUser(s)

\* C6 as stated: a request naming 'sub' always fails with 'Cannot modify
\* immutable attribute' and issues no backend update.
C6_AsClaimed ==
    \A s \in Slots :
        NamesSub(s) =>
            /\ ValidationError(Get(req[s].resp), "Cannot modify immutable attribute")
            /\ req[s].writes = 0

\* C6: for an existing user, AdminDeleteUserAttributes or
\* AdminUpdateUserAttributes naming 'sub' anywhere in its list fails with a
\* validation error and issues no backend update; the message is 'Cannot
\* modify immutable attribute', except that AdminDeleteUserAttributes answers
\* 'Cannot delete required attribute' when 'email' comes before 'sub' in the
\* list.
C6_SubNeverWritable ==
    \A s \in Slots :
        NamesSub(s) =>
            /\ ValidationError(Get(req[s].resp),
                 IF /\ req[s].action = "AdminDeleteUserAttributes"
                    /\ NamedFirst(NamesOf(req[s]), Name("email"), Name("sub"))
                 THEN "Cannot delete required attribute"
                 ELSE "Cannot modify immutable attribute")
            /\ req[s].writes = 0

\* a deletion naming 'sub' after another attribute has been refused
C6_Witness ==
    /\ NamesSub(1)
    /\ req[1].UserAttributeNames = Some(<<Name("given_name"), Name("sub")>>)
    /\ Get(req[1].resp) = ImmutableAttribute
    /\ req[1].writes = 0

\* C7 as stated: a deletion naming 'email' always fails with 'Cannot delete
\* required attribute' and leaves the user unchanged.
C7_AsClaimed ==
    \A s \in Slots :
        NamesEmailToDelete(s) =>
            /\ ValidationError(Get(req[s].resp), "Cannot delete required attribute")
            /\ req[s].writes = 0

\* C7: for an existing user, AdminDeleteUserAttributes naming the required
\* attribute 'email' anywhere in its list fails with a validation error and
\* issues no backend update; the message is 'Cannot delete required
\* attribute', except that it is 'Cannot modify immutable attribute' when
\* 'sub' comes before 'email' in the list.
C7_RequiredNotDeletable ==
    \A s \in Slots :
        NamesEmailToDelete(s) =>
            /\ ValidationError(Get(req[s].resp),
                 IF NamedFirst(NamesOf(req[s]), Name("sub"), Name("email"))
                 THEN "Cannot modify immutable attribute"
                 ELSE "Cannot delete required attribute")
            /\ req[s].writes = 0

\* a deletion naming 'email' after a custom attribute has been refused
C7_Witness ==
    /\ NamesEmailToDelete(1)
    /\ req[1].UserAttributeNames = Some(<<Custom("dept"), Name("email")>>)
    /\ Get(req[1].resp) = RequiredAttribute
    /\ req[1].writes = 0

----------------------------------------------------------------------------
(* Creation under interleaving *)

\* slot s's users.create has just been answered with the new user's id
CreateReturned(s) ==
    /\ At(s, "AdminCreateUser", "users.create")
    /\ req'[s].pc = "users.findOne"

\* slot s's read-back has just been answered with a user
ReadBackReturned(s) ==
    /\ At(s, "AdminCreateUser", "users.findOne")
    /\ req'[s].pc = "done"
    /\ Get(req'[s].resp).status = 200

CreatedAsPending(user) == user.enabled = Some(TRUE) /\ HasUpdatePassword(user)

\* C3 as stated: every successful AdminCreateUser returns a User with
\* Enabled=true and UserStatus=FORCE_CHANGE_PASSWORD.
C3_AsClaimed ==
    \A s \in Slots :
        (IsDone(s, "AdminCreateUser") /\ Get(req[s].resp).status = 200) =>
            LET user == Get(Get(req[s].resp).body).User
            IN user.Enabled = Some(TRUE) /\ user.UserStatus = "FORCE_CHANGE_PASSWORD"

\* C3: every AdminCreateUser whose create call succeeds, with or without a
\* TemporaryPassword and whatever the attributes, stores the backend user
\* with enabled=true and the UPDATE_PASSWORD required action; the User it
\* returns is the one read back afterwards, which has Enabled=true and
\* FORCE_CHANGE_PASSWORD whenever no other request has disabled the user or
\* cleared the action between the create and the read-back.
C3_CreatedPending ==
    [][\A s \in Slots :
          /\ CreateReturned(s) =>
                CreatedAsPending(Get(kcUsers'[Get(Get(req'[s].user).id)]))
          /\ (ReadBackReturned(s)
                /\ CreatedAsPending(Get(kcUsers[Get(Get(req[s].user).id)]))) =>
                LET user == Get(Get(req'[s].resp).body).User
                IN /\ user.Enabled = Some(TRUE)
                   /\ user.UserStatus = "FORCE_CHANGE_PASSWORD"]_vars

\* a create without a TemporaryPassword has returned its pending user
C3_Witness ==
    /\ IsDone(1, "AdminCreateUser")
    /\ req[1].TemporaryPassword = Absent
    /\ Get(req[1].resp).status = 200
    /\ Get(Get(req[1].resp).body).User.UserStatus = "FORCE_CHANGE_PASSWORD"
    /\ Get(Get(req[1].resp).body).User.Enabled = Some(TRUE)

----------------------------------------------------------------------------
(* Groups: not found, duplicates and conflicts *)

GroupNamed(name) ==
    \E i \in DOMAIN kcGroups : IsDefined(kcGroups[i]) /\ Get(kcGroups[i]).name = Some(name)

\* slot s's handler takes its group lookup in this step
LooksUpGroup(s) ==
    /\ req[s].action \in {"GetGroup", "UpdateGroup", "DeleteGroup", "ListUsersInGroup"}
    /\ req[s].pc \in {"groups.find", "getRequiredGroup"}
    /\ req'[s] # req[s]

\* C8: GetGroup, UpdateGroup, DeleteGroup and ListUsersInGroup whose lookup
\* finds no backend group with exactly the GroupName fail with
\* ResourceNotFoundException, HTTP 400, 'Group not found.', having issued no
\* backend write.
C8_GroupNotFound ==
    [][\A s \in Slots :
          (LooksUpGroup(s) /\ ~GroupNamed(Get(req[s].GroupName))) =>
              /\ req'[s].pc = "done"
              /\ Get(req'[s].resp).status = 400
              /\ Get(req'[s].resp).type = "ResourceNotFoundException"
              /\ Get(req'[s].resp).message = "Group not found."
              /\ Get(req'[s].resp).body = Absent
              /\ req'[s].writes = 0
              /\ kcGroups' = kcGroups
              /\ kcMembers' = kcMembers]_vars

\* DeleteGroup of 'admin' has been refused while only 'admins' exists
C8_Witness ==
    /\ IsDone(1, "DeleteGroup")
    /\ req[1].GroupName = Some(G1)
    /\ Get(req[1].resp) = GroupNotFound
    /\ GroupNamed(G2)
    /\ ~GroupNamed(G1)

\* C9: in a sequential run, CreateGroup with the name of an existing group
\* fails with GroupExistsException, HTTP 400, and issues no create; once that
\* group has been deleted with DeleteGroup, CreateGroup with the same name
\* succeeds and returns the group.
C9_DuplicateGroup ==
    \A s \in Slots :
        (IsDone(s, "CreateGroup") /\ req[s].GroupName = Some(G1)) =>
            LET resp == Get(req[s].resp)
            IN /\ stage = 1 =>
                    /\ resp.status = 400
                    /\ resp.type = "GroupExistsException"
                    /\ req[s].writes = 0
                    /\ Cardinality({i \in DOMAIN kcGroups :
                                       IsDefined(kcGroups[i])
                                       /\ Get(kcGroups[i]).name = Some(G1)}) = 1
               /\ stage = 2 =>
                    /\ resp.status = 200
                    /\ IsDefined(Get(resp.body).Group)
                    /\ Get(Get(resp.body).Group).GroupName = Some(G1)
                    /\ GroupNamed(G1)

\* CreateGroup has succeeded for a name whose group had been deleted
C9_Witness ==
    /\ stage = 2
    /\ IsDone(1, "CreateGroup")
    /\ req[1].GroupName = Some(G1)
    /\ Get(req[1].resp).status = 200

\* C10: whenever the backend answers a create call with 409, the handler's
\* response is the 'already exists' error with HTTP 400:
\* UsernameExistsException for AdminCreateUser, GroupExistsException for
\* CreateGroup, under every interleaving.
C10_ConflictTranslated ==
    \A s \in Slots :
        (req[s].pc = "done" /\ req[s].conflict) =>
            /\ Get(req[s].resp).status = 400
            /\ req[s].action = "AdminCreateUser"
                  => Get(req[s].resp).type = "UsernameExistsException"
            /\ req[s].action = "CreateGroup"
                  => Get(req[s].resp).type = "GroupExistsException"

----------------------------------------------------------------------------
(* Listings over a backend of any size *)

ListIds == {ToString(k) : k \in 1..MaxItems}

IdNumber(id) == CHOOSE k \in 1..MaxItems : ToString(k) = id

ListUsername(k) == IF k = 1 THEN "u1" ELSE "u" \o ToString(k)

ListUser(k) ==
    [id |-> Some(ToString(k)), username |-> Some(ListUsername(k)),
     email |-> IF k = 1 THEN Some(Email1) ELSE Absent,
     firstName |-> Absent, lastName |-> Absent,
     enabled |-> Some(TRUE), emailVerified |-> Some(FALSE),
     requiredActions |-> Some(<<>>),
     attributes |-> Some(EmptyMap), createdTimestamp |-> Some(1)]

ListGroupName(k) == IF k = 1 THEN G1 ELSE <<"g", ToString(k)>>

ListGroup(k) ==
    [id |-> Some(ToString(k)), name |-> Some(ListGroupName(k)),
     attributes |-> Some(EmptyMap)]

\* a backend holding n users and n groups: every user is a member of the
\* first group and the first user is a member of every group
InitList ==
    /\ \E n \in 0..MaxItems :
          /\ kcUsers = [id \in ListIds |->
                          IF IdNumber(id) <= n THEN Some(ListUser(IdNumber(id)))
                          ELSE Absent]
          /\ kcGroups = [id \in ListIds |->
                           IF IdNumber(id) <= n THEN Some(ListGroup(IdNumber(id)))
                           ELSE Absent]
          /\ kcMembers = {<<ToString(k), "1">> : k \in 1..n}
                         \cup {<<"1", ToString(k)>> : k \in 1..n}
          /\ nextUserId = n + 1
          /\ nextGroupId = n + 1
    /\ isAuthenticated = TRUE
    /\ kcAccessToken = Some(0)
    /\ InitCache
    /\ realmName = PoolRealm
    /\ clock = 1
    /\ req = [s \in Slots |-> IdleReq]
    /\ stage = 0
    /\ probe = NoProbe

ListLimits == {Absent, Some(0), Some(1), Some(2)}
ListTokens == {Absent, Some("0"), Some("1"), Some("2")}

ListRequests ==
    {[Request("ListUsers") EXCEPT !.Limit = l, !.PaginationToken = t, !.Filter = f] :
        l \in ListLimits, t \in ListTokens,
        f \in {Absent, Some(<<"email", "=", Email1>>)}}
    \cup {[Request("ListGroups") EXCEPT !.Limit = l, !.NextToken = t] :
            l \in ListLimits, t \in ListTokens}
    \cup {[Request("ListUsersInGroup") EXCEPT
              !.GroupName = Some(G1), !.Limit = l, !.NextToken = t] :
            l \in ListLimits, t \in ListTokens}
    \cup {[Request("AdminListGroupsForUser") EXCEPT
              !.Username = U1, !.Limit = l, !.NextToken = t] :
            l \in ListLimits, t \in ListTokens}

\* the listing handlers, one request at a time
NextList ==
    \/ \E r \in ListRequests : Receive(1, r)
    \/ listUsers_find(1)
    \/ listGroups_find(1)
    \/ listUsersInGroup_getRequiredGroup(1)
    \/ listUsersInGroup_listMembers(1)
    \/ adminListGroupsForUser_getRequiredUser(1)
    \/ adminListGroupsForUser_listGroups(1)
    \/ adminListGroupsForUser_findOne(1)
    \/ Deliver(1)

SpecList == InitList /\ [][NextList]_vars

\* the page size a request asks for: its Limit, or 60 when absent or 0
PageSize(r) == IF r.Limit = Absent \/ r.Limit = Some(0) THEN 60 ELSE Get(r.Limit)

\* the items and the token of a successful listing response
Listed(s) ==
    LET body == Get(Get(req[s].resp).body)
    IN IF req[s].action \in {"ListUsers", "ListUsersInGroup"}
       THEN body.Users ELSE body.Groups

TokenOf(s) ==
    LET body == Get(Get(req[s].resp).body)
    IN IF req[s].action = "ListUsers" THEN body.PaginationToken ELSE body.NextToken

ListingDone(s, actions) ==
    /\ req[s].pc = "done"
    /\ req[s].action \in actions
    /\ Get(req[s].resp).status = 200

\* C4: ListUsers, ListGroups and ListUsersInGroup with page size N (the
\* Limit, or 60 when it is absent or 0) return a pagination token if and
\* only if exactly N items were returned, for every start offset and every
\* backend content.
C4_TokenIffFullPage ==
    \A s \in Slots :
        ListingDone(s, {"ListUsers", "ListGroups", "ListUsersInGroup"}) =>
            (IsDefined(TokenOf(s)) <=> Len(Listed(s)) = PageSize(req[s]))

\* a listing without a Limit has returned 60 items and a token
C4_Witness ==
    /\ ListingDone(1, {"ListUsers", "ListGroups", "ListUsersInGroup"})
    /\ req[1].Limit = Absent
    /\ Len(Listed(1)) = 60
    /\ IsDefined(TokenOf(1))

\* C5: AdminListGroupsForUser with page size N returns a NextToken if and
\* only if the number of groups it returns equals N.
C5_TokenIffFullPage ==
    \A s \in Slots :
        ListingDone(s, {"AdminListGroupsForUser"}) =>
            (IsDefined(TokenOf(s)) <=> Len(Listed(s)) = PageSize(req[s]))


----------------------------------------------------------------------------
(* dispatchAction (handlers/index.ts): from the routing header to a handler *)

\* the header value is a prefix followed by an action name
AmzPrefix == "AWSCognitoIdentityProviderService."

\* header.startsWith(prefix)
startsWith(header, prefix) == Len(header) >= 1 /\ header[1] = prefix

\* header.slice(prefix.length): the empty string when nothing follows
sliceAfterPrefix(header) == IF Len(header) >= 2 THEN header[2] ELSE ""

\* parseAmzTarget(header): null (Absent) or the text after the prefix
parseAmzTarget(header) ==
    IF ~IsDefined(header) \/ Get(header) = <<>> THEN Absent
    ELSE IF startsWith(Get(header), AmzPrefix) THEN Some(sliceAfterPrefix(Get(header)))
    ELSE Absent

\* the keys of the actionHandlers object literal
actionHandlers ==
    {"AdminCreateUser", "AdminDeleteUser", "AdminGetUser",
     "AdminUpdateUserAttributes", "AdminSetUserPassword", "AdminEnableUser",
     "AdminDisableUser", "ListUsers",
     "AdminListGroupsForUser", "AdminAddUserToGroup", "AdminRemoveUserFromGroup",
     "CreateGroup", "DeleteGroup", "GetGroup", "ListGroups", "ListUsersInGroup",
     "UpdateGroup",
     "DescribeUserPool"}

\* actionHandlers is a plain object, so actionHandlers[action] also finds what
\* Object.prototype provides: functions, and the prototype object itself
ObjectPrototypeFunctions == {"constructor", "toString", "hasOwnProperty"}
ObjectPrototypeObjects == {"__proto__"}

\* a lookup that sees the registered keys only
lookupHandler_ownKeysOnly(action) ==
    IF action \in actionHandlers THEN "handler" ELSE "undefined"

\* actionHandlers[action]
lookupHandler(action) ==
    IF action \in actionHandlers THEN "handler"
    ELSE IF action \in ObjectPrototypeFunctions THEN "function"
    ELSE IF action \in ObjectPrototypeObjects THEN "object"
    ELSE "undefined"

MissingAction ==
    createErrorResponse("MissingAction", "Missing or invalid X-Amz-Target header",
                        400, Absent)

\* `Action ${action} is not supported`
InvalidAction(action) ==
    createErrorResponse("InvalidAction", "Action " \o action \o " is not supported",
                        400, Absent)

\* the fields of a request body
BodyFields ==
    {"Username", "GroupName", "UserAttributes", "UserAttributeNames",
     "TemporaryPassword", "MessageAction", "Password", "Permanent", "Limit",
     "NextToken", "PaginationToken", "Filter", "Description", "Precedence",
     "RoleArn", "UserPoolId"}

RequestBody(r) == [k \in BodyFields |-> r[k]]

\* await handler(body) when the value looked up is not a registered handler:
\* Object(body) returns the body, Object.prototype.toString called without a
\* receiver returns a string, hasOwnProperty called without a receiver throws
\* a TypeError, and calling the prototype object throws a TypeError
inheritedCall(action, r) ==
    IF action = "constructor" THEN Respond(r, Ok(RequestBody(r)))
    ELSE IF action = "toString" THEN Respond(r, Ok("[object Undefined]"))
    ELSE Respond(r, InternalError("TypeError"))

\* dispatchAction up to the handler's first await.  body is Absent when the
\* request body is not JSON.
dispatchAction(s, header, body) ==
    LET action == parseAmzTarget(header)
        routed == [IdleReq EXCEPT !.target = header]
    IN /\ req[s].pc = "idle"
       /\ \A t \in Slots : t < s => req[t].pc # "idle"
       /\ IF ~TruthyStr(action)
          THEN /\ SetReq(s, Respond(routed, MissingAction))
               /\ UNCHANGED <<backendVars, clientVars, otherVars>>
          ELSE IF lookupHandler(Get(action)) = "undefined"
          THEN /\ SetReq(s, Respond([routed EXCEPT !.action = Get(action)],
                                    InvalidAction(Get(action))))
               /\ UNCHANGED <<backendVars, clientVars, otherVars>>
          ELSE IF ~IsDefined(body)
          THEN /\ SetReq(s, Respond([routed EXCEPT !.action = Get(action),
                                                   !.parsed = TRUE],
                                    InternalError("SyntaxError")))
               /\ UNCHANGED <<backendVars, clientVars, otherVars>>
          ELSE IF lookupHandler(Get(action)) = "handler"
          THEN Receive(s, [Get(body) EXCEPT !.action = Get(action),
                                            !.target = header,
                                            !.parsed = TRUE, !.invoked = TRUE])
          ELSE /\ SetReq(s, inheritedCall(Get(action),
                                [Get(body) EXCEPT !.action = Get(action),
                                                  !.target = header,
                                                  !.parsed = TRUE,
                                                  !.invoked = TRUE]))
               /\ UNCHANGED <<backendVars, clientVars, otherVars>>

\* routing headers: none, empty, a foreign prefix, the prefix alone, and the
\* prefix with registered, unregistered and inherited names
Target(action) == Some(<<AmzPrefix, action>>)

DispatchHeaders ==
    {Absent, Some(<<>>), Some(<<"Other.", "AdminGetUser">>), Some(<<AmzPrefix>>),
     Some(<<"AdminGetUser">>)}
    \cup {Target(a) : a \in actionHandlers}
    \cup {Target(a) : a \in {"AdminConfirmSignUp", "Nope"}}
    \cup {Target(a) : a \in ObjectPrototypeFunctions \cup ObjectPrototypeObjects}

\* request bodies: malformed, the empty object, and one naming a user, a
\* group, a password and the pool
FullBody ==
    [IdleReq EXCEPT !.Username = U1, !.GroupName = Some(G1),
                    !.Password = Some("Pass1"), !.Permanent = Some(TRUE),
                    !.UserAttributes = Some(<<Attr(Name("email"), Email1)>>),
                    !.UserPoolId = Some(PoolRealm), !.Limit = Some(1)]

DispatchBodies == {Absent, Some(IdleReq), Some(FullBody)}

\* the steps of the handlers that are registered
RegisteredHandlerStep(s) ==
    \/ adminCreateUser_create(s)
    \/ adminCreateUser_findOne(s)
    \/ adminDeleteUser_getRequiredUser(s)
    \/ adminDeleteUser_del(s)
    \/ adminGetUser_getRequiredUser(s)
    \/ adminUpdateUserAttributes_getRequiredUser(s)
    \/ adminUpdateUserAttributes_update(s)
    \/ adminSetUserPassword_getRequiredUser(s)
    \/ adminSetUserPassword_resetPassword(s)
    \/ adminSetUserPassword_getRequiredUser2(s)
    \/ adminSetUserPassword_update(s)
    \/ adminEnableUser_getRequiredUser(s)
    \/ adminEnableUser_update(s)
    \/ adminDisableUser_getRequiredUser(s)
    \/ adminDisableUser_update(s)
    \/ listUsers_find(s)
    \/ listGroups_find(s)
    \/ adminListGroupsForUser_getRequiredUser(s)
    \/ adminListGroupsForUser_listGroups(s)
    \/ adminListGroupsForUser_findOne(s)
    \/ adminAddUserToGroup_getRequiredUser(s)
    \/ adminAddUserToGroup_getRequiredGroup(s)
    \/ adminAddUserToGroup_addToGroup(s)
    \/ adminRemoveUserFromGroup_delFromGroup(s)
    \/ GroupHandlerStep(s)
    \/ describeUserPool_count(s)

\* every request comes in through the dispatcher, one at a time
NextDispatch ==
    \/ \E h \in DispatchHeaders, b \in DispatchBodies : dispatchAction(1, h, b)
    \/ authenticate_auth(1)
    \/ authenticate_authFails(1)
    \/ RegisteredHandlerStep(1)
    \/ Deliver(1)

SpecDispatch == InitEmpty /\ [][NextDispatch]_vars


\* what the routing header says, read off the header itself
HeaderMalformed(h) ==
    \/ ~IsDefined(h)
    \/ Len(Get(h)) < 2
    \/ Get(h)[1] # AmzPrefix
    \/ Get(h)[2] = ""

HeaderAction(h) == Get(h)[2]

\* C11: a request whose X-Amz-Target header is absent, lacks the service
\* prefix or names no action is answered MissingAction, 400; a request whose
\* action name is not a registered one is answered InvalidAction, 400; in
\* both cases the body is not parsed, no handler is invoked and no backend
\* call is made, and a handler runs only for a registered action name.
C11_Routing ==
    \A s \in Slots :
        req[s].pc # "idle" =>
            LET r == req[s]
                refused(type) ==
                    /\ r.pc = "done"
                    /\ Get(r.resp).type = type
                    /\ Get(r.resp).status = 400
                    /\ ~r.parsed /\ ~r.invoked /\ r.writes = 0
            IN /\ HeaderMalformed(r.target) => refused("MissingAction")
               /\ (~HeaderMalformed(r.target)
                     /\ HeaderAction(r.target) \notin actionHandlers)
                    => refused("InvalidAction")
               /\ r.invoked => (~HeaderMalformed(r.target)
                                  /\ HeaderAction(r.target) \in actionHandlers)

----------------------------------------------------------------------------
(* convertDatesToEpochSeconds (handlers/index.ts)                           *)

\* A JavaScript value is a record with one field, named after its kind:
\* null, undefined, a Date (its milliseconds), an invalid Date, a number,
\* NaN, a string, a boolean, an array (its items) or a plain object (its
\* entries in order, each a key and a value).
JsNull == [null |-> TRUE]
JsUndefined == [undefined |-> TRUE]
JsDate(ms) == [date |-> ms]
JsInvalidDate == [invalidDate |-> TRUE]
JsNumber(n) == [number |-> n]
JsNaN == [nan |-> TRUE]
JsString(str) == [string |-> str]
JsBoolean(b) == [boolean |-> b]
JsArray(items) == [array |-> items]
JsObject(entries) == [object |-> entries]
Entry(key, val) == [key |-> key, val |-> val]

IsKind(value, kind) == DOMAIN value = {kind}

\* Math.floor(value.getTime() / 1000)
EpochSeconds(ms) == ms \div 1000

\* a conversion that does not descend into arrays and objects
convertDatesToEpochSeconds_topLevel(value) ==
    IF IsKind(value, "date") THEN JsNumber(EpochSeconds(value.date)) ELSE value

RECURSIVE convertDatesToEpochSeconds(_)
convertDatesToEpochSeconds(value) ==
    IF IsKind(value, "null") \/ IsKind(value, "undefined") THEN value
    ELSE IF IsKind(value, "date") THEN JsNumber(EpochSeconds(value.date))
    ELSE IF IsKind(value, "invalidDate") THEN JsNaN
    ELSE IF IsKind(value, "array")
    THEN JsArray([i \in 1..Len(value.array) |->
                    convertDatesToEpochSeconds(value.array[i])])
    ELSE IF IsKind(value, "object")
    THEN JsObject([i \in 1..Len(value.object) |->
                    Entry(value.object[i].key,
                          convertDatesToEpochSeconds(value.object[i].val))])
    ELSE value

\* the values converted: scalars, arrays and objects of scalars, and arrays
\* and objects of those
MaxArrayLen == 2

DateMillis == {0 - 1500, 0 - 1, 0, 999, 1000, 1500}

JsScalars ==
    {JsNull, JsUndefined, JsInvalidDate, JsNumber(1500), JsString("1500"),
     JsBoolean(TRUE)}
    \cup {JsDate(ms) : ms \in DateMillis}

JsNestedScalars == {JsNull, JsDate(1500), JsDate(0 - 1), JsNumber(1500), JsString("d")}

JsFlat ==
    {JsArray(items) : items \in SeqsUpTo(JsNestedScalars, MaxArrayLen)}
    \cup {JsObject(<<Entry("CreationDate", v)>>) : v \in JsNestedScalars}
    \cup {JsObject(<<Entry("UserCreateDate", v), Entry("Username", w)>>) :
            v \in JsNestedScalars, w \in JsNestedScalars}

JsNested ==
    {JsArray(<<v>>) : v \in JsFlat}
    \cup {JsObject(<<Entry("Users", v)>>) : v \in JsFlat}
    \cup {JsObject(<<Entry("Group", v), Entry("NextToken", JsString("1"))>>) :
            v \in JsFlat}

JsValues == JsScalars \cup JsFlat \cup JsNested

InitDates ==
    /\ kcUsers = NoUsers
    /\ kcGroups = NoGroups
    /\ kcMembers = {}
    /\ nextUserId = 1
    /\ nextGroupId = 1
    /\ isAuthenticated = TRUE
    /\ kcAccessToken = Some(0)
    /\ InitCache
    /\ realmName = PoolRealm
    /\ clock = 1
    /\ req = [s \in Slots |-> IdleReq]
    /\ stage = 0
    /\ \E v \in JsValues : probe = [result |-> v, json |-> Absent]

\* c.json(convertDatesToEpochSeconds(result))
dispatchAction_json ==
    /\ probe.json = Absent
    /\ probe' = [probe EXCEPT !.json = Some(convertDatesToEpochSeconds(probe.result))]
    /\ UNCHANGED <<backendVars, clientVars, cacheVars, req, clock, stage>>

NextDates == dispatchAction_json

SpecDates == InitDates /\ [][NextDates]_vars

\* out is in with every Date replaced by its epoch seconds and nothing else
\* changed
RECURSIVE DatesReplaced(_, _)
DatesReplaced(in, out) ==
    IF IsKind(in, "date")
    THEN /\ IsKind(out, "number")
         /\ out.number * 1000 <= in.date
         /\ in.date < (out.number + 1) * 1000
    ELSE IF IsKind(in, "invalidDate") THEN IsKind(out, "nan")
    ELSE IF IsKind(in, "array")
    THEN /\ IsKind(out, "array")
         /\ Len(out.array) = Len(in.array)
         /\ \A i \in 1..Len(in.array) : DatesReplaced(in.array[i], out.array[i])
    ELSE IF IsKind(in, "object")
    THEN /\ IsKind(out, "object")
         /\ Len(out.object) = Len(in.object)
         /\ \A i \in 1..Len(in.object) :
               /\ out.object[i].key = in.object[i].key
               /\ DatesReplaced(in.object[i].val, out.object[i].val)
    ELSE DOMAIN out = DOMAIN in /\ out = in

\* C13: the JSON the dispatcher returns for a handler result is the result
\* with every Date, at any depth inside arrays and objects, replaced by
\* floor(milliseconds / 1000), and every other value, every key and the
\* order of arrays and entries unchanged.
C13_DatesToEpochSeconds ==
    IsDefined(probe.json) => DatesReplaced(probe.result, Get(probe.json))

\* a result with a Date two levels down, before 1970, converted
C13_Witness ==
    /\ IsDefined(probe.json)
    /\ probe.result = JsObject(<<Entry("Users",
                           JsArray(<<JsDate(0 - 1), JsString("d")>>))>>)
    /\ Get(probe.json) = JsObject(<<Entry("Users",
                           JsArray(<<JsNumber(0 - 1), JsString("d")>>))>>)


----------------------------------------------------------------------------
(* Attribute lists through AdminCreateUser and back                         *)

MaxAttrs == 2

RoundTripNames ==
    {Name("email"), Name("given_name"), Name("phone_number"), Custom("dept"),
     Name("sub")}

RoundTripValues == {Absent, Some("v"), Some("")}

RoundTripLists ==
    SeqsUpTo({[Name |-> Some(n), Value |-> v] :
                n \in RoundTripNames, v \in RoundTripValues}, MaxAttrs)

InitRoundTrip ==
    /\ kcUsers = NoUsers
    /\ kcGroups = NoGroups
    /\ kcMembers = {}
    /\ nextUserId = 1
    /\ nextGroupId = 1
    /\ isAuthenticated = TRUE
    /\ kcAccessToken = Some(0)
    /\ InitCache
    /\ realmName = PoolRealm
    /\ clock = 1
    /\ req = [s \in Slots |-> IdleReq]
    /\ stage = 0
    /\ \E l \in RoundTripLists : probe = [list |-> l, out |-> Absent]

\* the attributes AdminCreateUser returns for the user it stored: the body
\* built from the list, created in the backend, converted back
adminCreateUser_attributes ==
    LET r == [Request("AdminCreateUser") EXCEPT
                !.Username = U1, !.UserAttributes = Some(probe.list)]
        created == KcCreatedUser(adminCreateUserBody(r, clock), "1", clock)
    IN /\ probe.out = Absent
       /\ probe' = [probe EXCEPT !.out = Some(keycloakToCognitoAttributes(created))]
       /\ UNCHANGED <<backendVars, clientVars, cacheVars, req, clock, stage>>

NextRoundTrip == adminCreateUser_attributes

SpecRoundTrip == InitRoundTrip /\ [][NextRoundTrip]_vars

\* C14: every entry of the list given to AdminCreateUser whose Name is not
\* sub and whose Value is defined comes back, with the same Name and the
\* same Value, in the attribute list converted from the stored user.
C14_RoundTrip ==
    IsDefined(probe.out) =>
        \A i \in 1..Len(probe.list) :
            (probe.list[i].Name # Some(Name("sub")) /\ IsDefined(probe.list[i].Value))
                => \E j \in 1..Len(Get(probe.out)) :
                      /\ Get(probe.out)[j].Name = probe.list[i].Name
                      /\ Get(probe.out)[j].Value = probe.list[i].Value


----------------------------------------------------------------------------
(* Every handler that takes an identifier, called with and without it       *)

\* what each action needs, by the API it implements
NeedsUsername ==
    UserActions \cup
    {"AdminListGroupsForUser", "AdminAddUserToGroup", "AdminRemoveUserFromGroup"}

NeedsGroupName ==
    {"AdminAddUserToGroup", "AdminRemoveUserFromGroup", "CreateGroup",
     "DeleteGroup", "GetGroup", "ListUsersInGroup", "UpdateGroup"}

NeedsPassword == {"AdminSetUserPassword"}

IdentifiedActions == NeedsUsername \cup NeedsGroupName

UsernamesFor(a) ==
    IF a \in NeedsUsername THEN {Absent, Some(""), U1, Some("u2")} ELSE {Absent}
GroupNamesFor(a) == IF a \in NeedsGroupName THEN {Absent, Some(<<>>), Some(G1)} ELSE {Absent}
PasswordsFor(a) == IF a \in NeedsPassword THEN {Absent, Some(""), Some("Pass1")} ELSE {Absent}

IdentifiedRequests ==
    UNION {{[Request(a) EXCEPT
                !.Username = u, !.GroupName = g, !.Password = pw,
                !.UserAttributes = Some(<<Attr(Name("email"), Email1),
                                          Attr(Name("email_verified"), "true"),
                                          Attr(Name("given_name"), "Bob")>>),
                !.UserAttributeNames = Some(<<Name("given_name")>>)] :
            u \in UsernamesFor(a), g \in GroupNamesFor(a), pw \in PasswordsFor(a)} :
           a \in IdentifiedActions}

MembershipStep(s) ==
    \/ adminListGroupsForUser_getRequiredUser(s)
    \/ adminListGroupsForUser_listGroups(s)
    \/ adminListGroupsForUser_findOne(s)
    \/ adminAddUserToGroup_getRequiredUser(s)
    \/ adminAddUserToGroup_getRequiredGroup(s)
    \/ adminAddUserToGroup_addToGroup(s)
    \/ adminRemoveUserFromGroup_delFromGroup(s)

\* all handlers that take an identifier, one request at a time
NextHandlers ==
    \/ \E r \in IdentifiedRequests : Receive(1, r)
    \/ authenticate_auth(1)
    \/ authenticate_authFails(1)
    \/ UserHandlerStep(1)
    \/ GroupHandlerStep(1)
    \/ MembershipStep(1)
    \/ Deliver(1)

SpecHandlers == InitEmpty /\ [][NextHandlers]_vars

\* the handler of slot s is awaiting a backend user or group call
AwaitsBackendCall(s) == req[s].pc \notin {"idle", "done", "keycloakClient.auth"}

MissingIdentifier(r) ==
    \/ r.action \in NeedsUsername /\ (r.Username = Absent \/ r.Username = Some(""))
    \/ r.action \in NeedsGroupName /\ (r.GroupName = Absent \/ r.GroupName = Some(<<>>))
    \/ r.action \in NeedsPassword /\ (r.Password = Absent \/ r.Password = Some(""))

LoginFailed(r) == r.resp = Some(InternalError("auth"))

NoUserNamed(username) == \A id \in UserIds :
    IsDefined(kcUsers[id]) => Get(kcUsers[id]).username # Some(username)

LooksUpUser(s) ==
    /\ req[s].action \in NeedsUsername \ {"AdminCreateUser"}
    /\ req[s].pc = "getRequiredUser"
    /\ req'[s] # req[s]

\* C17: when a user-targeting action looks its username up and no backend
\* user has exactly that username, the request is answered
\* UserNotFoundException, 400, "User does not exist.", and the backend is
\* left as it was.
C17_UserNotFound ==
    [][\A s \in Slots :
          (LooksUpUser(s) /\ NoUserNamed(Get(req[s].Username)))
            => /\ req'[s].pc = "done"
               /\ Get(req'[s].resp).type = "UserNotFoundException"
               /\ Get(req'[s].resp).status = 400
               /\ Get(req'[s].resp).message = "User does not exist."
               /\ req'[s].writes = 0
               /\ UNCHANGED backendVars]_vars

\* AdminAddUserToGroup for a missing user, with another user and the group
\* present, refused
C17_Witness ==
    \E s \in Slots :
        /\ req[s].pc = "done"
        /\ req[s].action = "AdminAddUserToGroup"
        /\ req[s].Username = Some("u2")
        /\ req[s].resp = Some(UserNotFound)
        /\ NoUserNamed("u2") /\ ~NoUserNamed("u1")
        /\ GroupNamed(G1)


----------------------------------------------------------------------------
(* The user handlers on a user that is already in the backend               *)

\* sequences over S without repetition, as the backend keeps required actions
DistinctSeqsUpTo(S, n) ==
    {q \in SeqsUpTo(S, n) : \A i, j \in 1..Len(q) : q[i] = q[j] => i = j}

\* a user as AdminCreateUser stores it (given_name both as firstName and as
\* an attribute), with a custom attribute, in any state of its flags
StoredUser(enabled, emailVerified, requiredActions) ==
    [id |-> Some("1"), username |-> U1, email |-> Some(Email1),
     firstName |-> Some("Ann"), lastName |-> Some("Lee"),
     enabled |-> Some(enabled), emailVerified |-> Some(emailVerified),
     requiredActions |-> Some(requiredActions),
     attributes |-> Some(Spread([k \in {Name("dept"), Name("given_name")} |->
                                   IF k = Name("dept") THEN <<"d1">> ELSE <<"Ann">>],
                                Stamp(0))),
     createdTimestamp |-> Some(1)]

StoredUsers ==
    {StoredUser(e, v, a) :
        e \in BOOLEAN, v \in BOOLEAN,
        a \in DistinctSeqsUpTo(RequiredActionNames, MaxActions)}

InitStored ==
    /\ \E u \in StoredUsers : kcUsers = [NoUsers EXCEPT !["1"] = Some(u)]
    /\ kcGroups = NoGroups
    /\ kcMembers = {}
    /\ nextUserId = 2
    /\ nextGroupId = 1
    /\ isAuthenticated = FALSE
    /\ kcAccessToken = Absent
    /\ InitCache
    /\ realmName = PoolRealm
    /\ clock = 1
    /\ req = [s \in Slots |-> IdleReq]
    /\ stage = 0
    /\ probe = NoProbe

FrameActions ==
    {"AdminSetUserPassword", "AdminEnableUser", "AdminDisableUser",
     "AdminConfirmSignUp", "AdminResetUserPassword"}

StoredDeleteLists ==
    {<<Name("given_name")>>, <<Name("given_name"), Name("family_name")>>,
     <<Custom("dept")>>, <<Name("email_verified")>>}

StoredRequests ==
    {[Request(a) EXCEPT !.Username = U1, !.Password = Some("Pass1"),
                        !.Permanent = pm] :
        a \in FrameActions \cup {"AdminGetUser"}, pm \in {Some(TRUE), Some(FALSE)}}
    \cup {[Request("AdminDeleteUserAttributes") EXCEPT
              !.Username = U1, !.UserAttributeNames = Some(l)] :
           l \in StoredDeleteLists}

\* stage is 1 while the last change delivered is a successful
\* AdminResetUserPassword
DeliverAfterReset(s) ==
    /\ req[s].pc = "done"
    /\ SetReq(s, IdleReq)
    /\ stage' = IF req[s].action = "AdminGetUser" THEN stage
                ELSE IF req[s].action = "AdminResetUserPassword"
                        /\ Get(req[s].resp).status = 200
                     THEN 1
                ELSE 0
    /\ UNCHANGED <<backendVars, clientVars, cacheVars, clock, probe>>

StoredStep(s) ==
    \/ adminGetUser_getRequiredUser(s)
    \/ adminSetUserPassword_getRequiredUser(s)
    \/ adminSetUserPassword_resetPassword(s)
    \/ adminSetUserPassword_getRequiredUser2(s)
    \/ adminSetUserPassword_update(s)
    \/ adminEnableUser_getRequiredUser(s)
    \/ adminEnableUser_update(s)
    \/ adminDisableUser_getRequiredUser(s)
    \/ adminDisableUser_update(s)
    \/ adminConfirmSignUp_getRequiredUser(s)
    \/ adminConfirmSignUp_update(s)
    \/ adminResetUserPassword_getRequiredUser(s)
    \/ adminResetUserPassword_update(s)
    \/ adminResetUserPassword_executeActionsEmail(s)
    \/ adminDeleteUserAttributes_getRequiredUser(s)
    \/ adminDeleteUserAttributes_update(s)

NextStored ==
    \/ \E r \in StoredRequests : Receive(1, r)
    \/ authenticate_auth(1)
    \/ authenticate_authFails(1)
    \/ StoredStep(1)
    \/ DeliverAfterReset(1)

SpecStored == InitStored /\ [][NextStored]_vars


----------------------------------------------------------------------------
(* AdminResetUserPassword                                                   *)

Occurrences(seq, x) == Cardinality({i \in 1..Len(seq) : seq[i] = x})

PendingActions(user) ==
    IF IsDefined(user.requiredActions) THEN Get(user.requiredActions) ELSE <<>>

\* the users.update call of AdminResetUserPassword returns without an error
ResetWritten(s) ==
    /\ At(s, "AdminResetUserPassword", "users.update")
    /\ req'[s].writes = req[s].writes + 1
    /\ ~(req'[s].pc = "done" /\ Get(req'[s].resp).status # 200)

\* the e-mail call of AdminResetUserPassword returns or fails
ResetMailed(s) ==
    /\ At(s, "AdminResetUserPassword", "users.executeActionsEmail")
    /\ req'[s] # req[s]

----------------------------------------------------------------------------
(* What the state-changing user actions leave alone                         *)

\* the attributes AdminGetUser lists for a user
ListedAttributes(users, id) == adminGetUserResponse(Get(users[id])).UserAttributes

IsCustomName(name) == Len(name) > 1 /\ Head(name) = CustomPrefix

\* email, given_name, family_name and the custom attributes AdminGetUser
\* lists, the last-modified stamp left out
FramedAttributes(users, id) ==
    SelectSeq(ListedAttributes(users, id),
              LAMBDA a : \/ Get(a.Name) \in {Name("email"), Name("given_name"),
                                             Name("family_name")}
                         \/ /\ IsCustomName(Get(a.Name))
                            /\ Get(a.Name) # AddCustom(LastModifiedKey))

\* C19: while an AdminSetUserPassword, AdminEnableUser, AdminDisableUser,
\* AdminConfirmSignUp or AdminResetUserPassword is handled (one request at a
\* time), no step changes the email, given_name, family_name or custom
\* attributes that AdminGetUser lists for the user.
C19_AttributesKept ==
    [][\A s \in Slots :
          req[s].action \in FrameActions =>
              \A id \in {i \in DOMAIN kcUsers : IsDefined(kcUsers[i])} :
                  /\ IsDefined(kcUsers'[id])
                  /\ FramedAttributes(kcUsers', id) = FramedAttributes(kcUsers, id)]_vars

\* AdminDisableUser has rewritten the user, who still has the custom
\* attribute and the names
C19_Witness ==
    /\ IsDone(1, "AdminDisableUser")
    /\ Get(req[1].resp).status = 200
    /\ req[1].writes = 1
    /\ Get(kcUsers["1"]).enabled = Some(FALSE)
    /\ Get(Get(kcUsers["1"]).attributes)[LastModifiedKey] # Stamp(0)[LastModifiedKey]
    /\ \E i \in 1..Len(FramedAttributes(kcUsers, "1")) :
          FramedAttributes(kcUsers, "1")[i] =
              [Name |-> Some(Custom("dept")), Value |-> Some("d1")]
    /\ Len(FramedAttributes(kcUsers, "1")) = 5


----------------------------------------------------------------------------
(* AdminDeleteUserAttributes                                                *)

\* the users.update call of AdminDeleteUserAttributes returns without an error
DeleteWritten(s) ==
    /\ At(s, "AdminDeleteUserAttributes", "users.update")
    /\ req'[s].pc = "done"
    /\ Get(req'[s].resp).status = 200

\* the attributes AdminGetUser lists, the last-modified stamp left out
ListedBesidesStamp(users, id) ==
    SelectSeq(ListedAttributes(users, id),
              LAMBDA a : Get(a.Name) # AddCustom(LastModifiedKey))

\* C20: a successful AdminDeleteUserAttributes leaves none of the named
\* attributes in what AdminGetUser lists, leaves every attribute that was
\* not named listed with the value it had, and leaves the email, the enabled
\* flag and the required actions of the user as they were.
C20_ExactlyNamedRemoved ==
    [][\A s \in Slots :
          DeleteWritten(s) =>
              LET id == Get(Get(req[s].user).id)
                  names == Get(req[s].UserAttributeNames)
                  named == {names[i] : i \in 1..Len(names)}
                  before == ListedBesidesStamp(kcUsers, id)
                  after == ListedBesidesStamp(kcUsers', id)
              IN /\ \A i \in 1..Len(after) : Get(after[i].Name) \notin named
                 /\ SelectSeq(before, LAMBDA a : Get(a.Name) \notin named) = after
                 /\ Get(kcUsers'[id]).email = Get(kcUsers[id]).email
                 /\ Get(kcUsers'[id]).enabled = Get(kcUsers[id]).enabled
                 /\ Get(kcUsers'[id]).requiredActions
                        = Get(kcUsers[id]).requiredActions]_vars


----------------------------------------------------------------------------
(* DescribeUserPool between user creations                                  *)

PoolRequests ==
    {[Request("DescribeUserPool") EXCEPT !.UserPoolId = id] :
        id \in {Some(PoolRealm), Some("other_pool"), Absent}}
    \cup {[Request("AdminCreateUser") EXCEPT !.Username = u] :
            u \in {U1, Some("u2")}}

\* probe keeps the descriptor of the last successful DescribeUserPool and
\* stage counts the users created since
DeliverDescribed(s) ==
    LET r == req[s]
        described == r.action = "DescribeUserPool" /\ Get(r.resp).status = 200
        created == r.action = "AdminCreateUser" /\ r.writes = 1 /\ ~r.conflict
    IN /\ r.pc = "done"
       /\ SetReq(s, IdleReq)
       /\ probe' = IF described
                   THEN [fn |-> "describeUserPool",
                         descriptor |-> Get(Get(r.resp).body).UserPool]
                   ELSE probe
       /\ stage' = IF described THEN 0
                   ELSE IF created THEN stage + 1
                   ELSE stage
       /\ UNCHANGED <<backendVars, clientVars, cacheVars, clock>>

NextPool ==
    \/ \E r \in PoolRequests : Receive(1, r)
    \/ authenticate_auth(1)
    \/ authenticate_authFails(1)
    \/ describeUserPool_count(1)
    \/ adminCreateUser_create(1)
    \/ adminCreateUser_findOne(1)
    \/ DeliverDescribed(1)
    \/ Tick

SpecPool == InitEmpty /\ [][NextPool]_vars

\* a descriptor with its user count blanked
BesidesCount(descriptor) == [descriptor EXCEPT !.EstimatedNumberOfUsers = 0]

\* C18: a successful DescribeUserPool reports as EstimatedNumberOfUsers the
\* number of users in the backend; after exactly one user creation since the
\* previous successful call the value is that call's value plus 1; and
\* every other field of the descriptor equals that of the previous call.
C18_OnlyCountVaries ==
    \A s \in Slots :
        (IsDone(s, "DescribeUserPool") /\ Get(req[s].resp).status = 200) =>
            LET d == Get(Get(req[s].resp).body).UserPool
            IN /\ d.EstimatedNumberOfUsers = KcCountUsers(kcUsers)
               /\ probe.fn = "describeUserPool" =>
                     /\ stage = 1 => d.EstimatedNumberOfUsers
                                        = probe.descriptor.EstimatedNumberOfUsers + 1
                     /\ BesidesCount(d) = BesidesCount(probe.descriptor)


----------------------------------------------------------------------------
(* Group membership and group lookup on a backend that holds users and      *)
(* groups                                                                   *)

MemberGroupName(k) == IF k = 1 THEN G1 ELSE IF k = 2 THEN G2 ELSE ListGroupName(k)

MemberGroup(k) ==
    [id |-> Some(ToString(k)), name |-> Some(MemberGroupName(k)),
     attributes |-> Some(EmptyMap)]

\* every user exists; any of the groups exist, with any memberships in them
InitMembers ==
    /\ kcUsers = [id \in UserIds |-> Some(ListUser(IdNumber(id)))]
    /\ \E present \in SUBSET GroupIds :
          /\ kcGroups = [id \in GroupIds |->
                           IF id \in present THEN Some(MemberGroup(IdNumber(id)))
                           ELSE Absent]
          /\ kcMembers \in SUBSET (UserIds \X present)
    /\ nextUserId = MaxUserIds + 1
    /\ nextGroupId = MaxGroupIds + 1
    /\ isAuthenticated = TRUE
    /\ kcAccessToken = Some(0)
    /\ InitCache
    /\ realmName = PoolRealm
    /\ clock = 1
    /\ req = [s \in Slots |-> IdleReq]
    /\ stage = 0
    /\ probe = NoProbe

MemberUsernames == {U1, Some("u2")}
MemberGroupNames == {Some(G1), Some(G2)}

MemberRequests ==
    {[Request(a) EXCEPT !.Username = u, !.GroupName = g] :
        a \in {"AdminAddUserToGroup", "AdminRemoveUserFromGroup"},
        u \in MemberUsernames, g \in MemberGroupNames}
    \cup {[Request("AdminListGroupsForUser") EXCEPT !.Username = u] :
            u \in MemberUsernames}
    \cup {[Request(a) EXCEPT !.GroupName = g] :
            a \in {"ListUsersInGroup", "GetGroup", "DeleteGroup"},
            g \in MemberGroupNames}
    \cup {[Request("UpdateGroup") EXCEPT !.GroupName = g, !.Description = Some("d2")] :
            g \in MemberGroupNames}

NextMembers ==
    \/ \E r \in MemberRequests : Receive(1, r)
    \/ MembershipStep(1)
    \/ listUsersInGroup_getRequiredGroup(1)
    \/ listUsersInGroup_listMembers(1)
    \/ getGroup_find(1)
    \/ getGroup_findOne(1)
    \/ updateGroup_getRequiredGroup(1)
    \/ updateGroup_findOne(1)
    \/ updateGroup_update(1)
    \/ updateGroup_findOne2(1)
    \/ deleteGroup_getRequiredGroup(1)
    \/ deleteGroup_del(1)
    \/ Deliver(1)

SpecMembers == InitMembers /\ [][NextMembers]_vars

\* the group names AdminListGroupsForUser lists for a username
GroupsListedFor(users, groups, members, username) ==
    LET user == getRequiredUser(users, username)
        listed == KcListGroupsOfUser(groups, members, Get(Get(user).id))
    IN {Get(listed[k].name) : k \in 1..Len(listed)}

\* the usernames ListUsersInGroup lists for a group name
UsersListedIn(users, groups, members, groupName) ==
    LET group == getRequiredGroup(groups, groupName)
        listed == KcListMembers(users, members, Get(Get(group).id), 0, DefaultLimit)
    IN {Get(listed[k].username) : k \in 1..Len(listed)}

\* the backend call of a membership action returns without an error
MembershipWritten(s, action) ==
    /\ req[s].action = action
    /\ req[s].pc \in {"users.addToGroup", "users.delFromGroup"}
    /\ req'[s].pc = "done"
    /\ Get(req'[s].resp).status = 200

\* the memberships of the users other than the one named
OthersMemberships(users, members, username) ==
    {m \in members : Get(users[m[1]]).username # Some(username)}

\* a listing without Limit and token has answered
ListedAll(s, action) ==
    /\ IsDone(s, action)
    /\ Get(req[s].resp).status = 200
    /\ req[s].Limit = Absent /\ req[s].NextToken = Absent

\* C21: a successful AdminAddUserToGroup(u, g) leaves g among the groups
\* listed for u and u among the users listed in g; a successful
\* AdminRemoveUserFromGroup(u, g) leaves the groups listed for u as they were
\* less g; neither changes a membership of another user; and what
\* AdminListGroupsForUser and ListUsersInGroup answer is what the backend
\* holds (one request at a time).
C21_MembershipFollows ==
    /\ [][\A s \in Slots :
            LET u == Get(req[s].Username)
                g == Get(req[s].GroupName)
                before == GroupsListedFor(kcUsers, kcGroups, kcMembers, u)
                after == GroupsListedFor(kcUsers', kcGroups', kcMembers', u)
            IN /\ MembershipWritten(s, "AdminAddUserToGroup") =>
                     /\ after = before \cup {g}
                     /\ u \in UsersListedIn(kcUsers', kcGroups', kcMembers', g)
                     /\ OthersMemberships(kcUsers', kcMembers', u)
                           = OthersMemberships(kcUsers, kcMembers, u)
               /\ MembershipWritten(s, "AdminRemoveUserFromGroup") =>
                     /\ after = before \ {g}
                     /\ OthersMemberships(kcUsers', kcMembers', u)
                           = OthersMemberships(kcUsers, kcMembers, u)]_vars
    /\ [](\A s \in Slots :
            /\ ListedAll(s, "AdminListGroupsForUser") =>
                  LET Groups == Get(Get(req[s].resp).body).Groups
                  IN {Get(Groups[k].GroupName) : k \in 1..Len(Groups)}
                       = GroupsListedFor(kcUsers, kcGroups, kcMembers,
                                         Get(req[s].Username))
            /\ ListedAll(s, "ListUsersInGroup") =>
                  LET Users == Get(Get(req[s].resp).body).Users
                  IN {Get(Users[k].Username) : k \in 1..Len(Users)}
                       = UsersListedIn(kcUsers, kcGroups, kcMembers,
                                       Get(req[s].GroupName)))

\* u1 has been taken out of G1 and is still listed in G2, of which u2 is a
\* member as well
C21_Witness ==
    /\ IsDone(1, "AdminRemoveUserFromGroup")
    /\ Get(req[1].resp).status = 200
    /\ req[1].Username = U1 /\ req[1].GroupName = Some(G1)
    /\ req[1].writes = 1
    /\ GroupsListedFor(kcUsers, kcGroups, kcMembers, "u1") = {G2}
    /\ UsersListedIn(kcUsers, kcGroups, kcMembers, G2) = {"u1", "u2"}
    /\ UsersListedIn(kcUsers, kcGroups, kcMembers, G1) = {"u2"}


----------------------------------------------------------------------------
(* The order of login and validation                                        *)

\* the request lacks the Username or the GroupName its action requires
MissingName(r) ==
    \/ r.action \in NeedsUsername /\ (r.Username = Absent \/ r.Username = Some(""))
    \/ r.action \in NeedsGroupName /\ (r.GroupName = Absent \/ r.GroupName = Some(<<>>))

\* C22: a request that lacks its Username or GroupName is never found
\* waiting for the backend, the administrative login included, and is
\* answered InvalidParameterException, 400, whether the login would succeed
\* or fail.
C22_ValidationFirst ==
    \A s \in Slots :
        MissingName(req[s]) =>
            /\ req[s].pc = "done"
            /\ Get(req[s].resp).type = "InvalidParameterException"
            /\ Get(req[s].resp).status = 400


----------------------------------------------------------------------------
(* The credential of the shared client (client.ts)                          *)

\* the ticks for which the backend honours the token of a login
AdminTokenLifetime == 1

\* slot s issues the backend call it was waiting to make
BackendCallBy(s) ==
    /\ req[s].pc \notin {"idle", "done", "keycloakClient.auth"}
    /\ req'[s] # req[s]

\* the token the shared client holds is honoured by the backend now
CredentialValid ==
    IsDefined(kcAccessToken) /\ clock < Get(kcAccessToken) + AdminTokenLifetime

\* authenticate() has returned without a login and the handler of slot s
\* goes on to its first backend call
StartsWithoutLogin(s) ==
    /\ req[s].pc = "idle"
    /\ req'[s].pc \notin {"idle", "done", "keycloakClient.auth"}

\* C23: a handler that goes on to the backend without a fresh login holds a
\* token the backend still honours, and so does every handler at the moment
\* it issues a user or group call, however much time has passed since the
\* last login.
C23_CredentialValid ==
    [][\A s \in Slots :
          /\ StartsWithoutLogin(s) => CredentialValid
          /\ BackendCallBy(s) => CredentialValid]_vars


----------------------------------------------------------------------------
(* The token cache of KeycloakAdminClient: getAccessToken, with its callers  *)
(* interleaved at their awaits.  Times are in milliseconds; the clock ticks  *)
(* once per refresh buffer.                                                  *)

\* the buffer of "still valid (with 30s buffer)"
RefreshBuffer == 30000

\* Date.now()
DateNow(t) == t * RefreshBuffer

MaxLifetime == 2
MaxLogins == 3

\* expires_in of a token response, in seconds
TokenLifetimes == {30 * k : k \in 1..MaxLifetime}

\* the answer to a login sent at sentAt and answered, as login number serial,
\* at issuedAt
TokenResponse(serial, sentAt, issuedAt, expires_in) ==
    [access_token |-> serial, sentAt |-> sentAt, issuedAt |-> issuedAt,
     expires_in |-> expires_in]

\* the moment the backend stops honouring the token
RealExpiry(data) == DateNow(data.issuedAt) + data.expires_in * 1000

SetCall(c, call) == callers' = [callers EXCEPT ![c] = call]

\* const now = Date.now(); return the cached token if still valid, else
\* start the login
getAccessToken_enter(c) ==
    LET now == DateNow(clock)
    IN /\ callers[c].pc = "idle"
       /\ SetCall(c, IF IsDefined(accessToken) /\ tokenExpiresAt > now + RefreshBuffer
                     THEN [pc |-> "returned", now |-> now, result |-> accessToken]
                     ELSE [pc |-> "fetch", now |-> now])
       /\ UNCHANGED <<backendVars, clientVars, accessToken, tokenExpiresAt, clients,
                      logins, clock, req, stage, probe>>

\* await fetch(tokenUrl): the backend answers with a token or refuses
getAccessToken_fetch(c) ==
    /\ callers[c].pc = "fetch"
    /\ \/ /\ logins < MaxLogins
          /\ logins' = logins + 1
          /\ \E e \in TokenLifetimes :
                SetCall(c, [pc |-> "response.json", now |-> callers[c].now,
                            data |-> TokenResponse(logins + 1,
                                                   callers[c].now \div RefreshBuffer,
                                                   clock, e)])
       \/ /\ SetCall(c, [pc |-> "response.text", now |-> callers[c].now])
          /\ UNCHANGED logins
    /\ UNCHANGED <<backendVars, clientVars, accessToken, tokenExpiresAt, clients,
                   clock, req, stage, probe>>

\* a variant that dates the expiry from the arrival of the response
getAccessToken_json_fromArrival(c) ==
    LET data == callers[c].data
    IN /\ callers[c].pc = "response.json"
       /\ accessToken' = Some(data)
       /\ tokenExpiresAt' = DateNow(clock) + data.expires_in * 1000
       /\ SetCall(c, [pc |-> "returned", now |-> callers[c].now,
                      result |-> accessToken'])
       /\ UNCHANGED <<backendVars, clientVars, clients, logins, clock, req, stage,
                      probe>>

\* await response.json(): the token and its expiry are cached and the token
\* returned
getAccessToken_json(c) ==
    LET data == callers[c].data
    IN /\ callers[c].pc = "response.json"
       /\ accessToken' = Some(data)
       /\ tokenExpiresAt' = callers[c].now + data.expires_in * 1000
       /\ SetCall(c, [pc |-> "returned", now |-> callers[c].now,
                      result |-> accessToken'])
       /\ UNCHANGED <<backendVars, clientVars, clients, logins, clock, req, stage,
                      probe>>

\* await response.text(), then throw
getAccessToken_text(c) ==
    /\ callers[c].pc = "response.text"
    /\ SetCall(c, [pc |-> "thrown", now |-> callers[c].now])
    /\ UNCHANGED <<backendVars, clientVars, accessToken, tokenExpiresAt, clients,
                   logins, clock, req, stage, probe>>

\* the caller has its answer and may call again
CallEnds(c) ==
    /\ callers[c].pc \in {"returned", "thrown"}
    /\ SetCall(c, IdleCall)
    /\ UNCHANGED <<backendVars, clientVars, accessToken, tokenExpiresAt, clients,
                   logins, clock, req, stage, probe>>

NextToken ==
    \/ \E c \in Callers : getAccessToken_enter(c)
    \/ \E c \in Callers : getAccessToken_fetch(c)
    \/ \E c \in Callers : getAccessToken_json(c)
    \/ \E c \in Callers : getAccessToken_text(c)
    \/ \E c \in Callers : CallEnds(c)
    \/ Tick

SpecToken == InitEmpty /\ [][NextToken]_vars

\* C24: with the callers of getAccessToken interleaved in every way, the
\* cached expiry is the one computed from the response that carried the
\* cached token, it is never later than the moment the backend stops
\* honouring that token, a cached expiry is never held without a token, and
\* every caller that returns holds the token of a login the backend answered.
C24_CacheConsistent ==
    /\ IsDefined(accessToken) =>
          LET data == Get(accessToken)
          IN /\ tokenExpiresAt = DateNow(data.sentAt) + data.expires_in * 1000
             /\ tokenExpiresAt <= RealExpiry(data)
             /\ data.access_token \in 1..logins
    /\ ~IsDefined(accessToken) => tokenExpiresAt = 0
    /\ \A c \in Callers :
          callers[c].pc = "returned" =>
              /\ IsDefined(callers[c].result)
              /\ Get(callers[c].result).access_token \in 1..logins

\* two callers raced: each logged in, the login sent first was answered and
\* cached last, and both have returned a token
C24_Witness ==
    /\ logins = 2
    /\ callers[1].pc = "returned" /\ callers[2].pc = "returned"
    /\ Get(callers[1].result).access_token = 2
    /\ Get(callers[2].result).access_token = 1
    /\ Get(callers[1].result).sentAt < Get(callers[2].result).sentAt
    /\ accessToken = callers[1].result


----------------------------------------------------------------------------
(* The per-realm client registry: getClientForUserPool / getClientForRealm, *)
(* with its callers interleaved at the await of the login                   *)

UserPoolIdMissing ==
    CognitoException("InvalidParameterException",
        "1 validation error detected: Value at 'userPoolId' failed to satisfy constraint: Member must not be null",
        400)

\* new KcAdminClient({ realmName }) followed by the first, synchronous part
\* of authenticate(client, realmName): setConfig({ realmName: "master" })
NewClientLoggingIn == [realmName |-> MasterRealm, loggedIn |-> FALSE]

\* getClientForUserPool(request) up to the first await: the missing pool id
\* throws, a cached client is returned as it is, a new client is cached and
\* its login started
getClientForRealm_enter(c, UserPoolId) ==
    /\ callers[c].pc = "idle"
    /\ IF ~TruthyStr(UserPoolId)
       THEN /\ SetCall(c, [pc |-> "thrown", error |-> UserPoolIdMissing])
            /\ UNCHANGED clients
       ELSE IF Get(UserPoolId) \in DOMAIN clients
       THEN /\ SetCall(c, [pc |-> "returned", realm |-> Get(UserPoolId)])
            /\ UNCHANGED clients
       ELSE /\ clients' = Spread(clients, [k \in {Get(UserPoolId)} |-> NewClientLoggingIn])
            /\ SetCall(c, [pc |-> "client.auth", realm |-> Get(UserPoolId)])
    /\ UNCHANGED <<backendVars, clientVars, accessToken, tokenExpiresAt, logins,
                   clock, req, stage, probe>>

\* await client.auth(...): on success the client is switched to its realm
\* and returned; on failure the call throws
getClientForRealm_auth(c) ==
    LET realm == callers[c].realm
    IN /\ callers[c].pc = "client.auth"
       /\ \/ /\ clients' = [clients EXCEPT ![realm] =
                                 [realmName |-> realm, loggedIn |-> TRUE]]
             /\ SetCall(c, [pc |-> "returned", realm |-> realm])
          \/ /\ SetCall(c, [pc |-> "thrown", error |-> ErrorValue("auth")])
             /\ UNCHANGED clients
       /\ UNCHANGED <<backendVars, clientVars, accessToken, tokenExpiresAt, logins,
                      clock, req, stage, probe>>

\* the caller has its answer and may call again
ClientCallEnds(c) ==
    /\ callers[c].pc \in {"returned", "thrown"}
    /\ SetCall(c, IdleCall)
    /\ UNCHANGED <<backendVars, clientVars, accessToken, tokenExpiresAt, clients,
                   logins, clock, req, stage, probe>>

UserPoolIds == {Absent, Some(""), Some(PoolRealm), Some("other_pool")}

NextClients ==
    \/ \E c \in Callers, id \in UserPoolIds : getClientForRealm_enter(c, id)
    \/ \E c \in Callers : getClientForRealm_auth(c)
    \/ \E c \in Callers : ClientCallEnds(c)

SpecClients == InitEmpty /\ [][NextClients]_vars

\* C27: a client that getClientForUserPool returns has completed its login
\* and is set to the realm asked for, whichever way concurrent calls
\* interleave and also after an earlier login for the realm failed.
C27_ReturnedClientReady ==
    \A c \in Callers :
        callers[c].pc = "returned" =>
            /\ clients[callers[c].realm].loggedIn
            /\ clients[callers[c].realm].realmName = callers[c].realm


----------------------------------------------------------------------------
(* keycloakToCognitoGroup on the attribute bags a backend group can carry   *)

\* what the backend can hold under one attribute key: no key, no value, or
\* one value
AttributeValues(values) == {Absent, Some(<<>>)} \cup {Some(<<v>>) : v \in values}

PrecedenceStrings == {"", "0", "5", "abc"}

\* the attribute bag with the keys that are present
AttributeBag(description, precedence, roleArn) ==
    [k \in {key \in {"description", "precedence", "roleArn"} :
               IsDefined(CASE key = "description" -> description
                           [] key = "precedence" -> precedence
                           [] OTHER -> roleArn)} |->
        Get(CASE k = "description" -> description
              [] k = "precedence" -> precedence
              [] OTHER -> roleArn)]

BackendGroups ==
    {[id |-> Some("1"), name |-> Some(G1), attributes |-> Absent]}
    \cup {[id |-> Some("1"), name |-> Some(G1),
           attributes |-> Some(AttributeBag(d, p, a))] :
            d \in AttributeValues({"d1"}),
            p \in AttributeValues(PrecedenceStrings),
            a \in AttributeValues({"arn"})}

InitGroupMapper ==
    /\ kcUsers = NoUsers
    /\ kcGroups = NoGroups
    /\ kcMembers = {}
    /\ nextUserId = 1
    /\ nextGroupId = 1
    /\ isAuthenticated = TRUE
    /\ kcAccessToken = Some(0)
    /\ InitCache
    /\ realmName = PoolRealm
    /\ clock = 1
    /\ req = [s \in Slots |-> IdleReq]
    /\ stage = 0
    /\ \E g \in BackendGroups : probe = [group |-> g, out |-> Absent]

\* the mapper is applied to the group
keycloakToCognitoGroup_apply ==
    /\ probe.out = Absent
    /\ probe' = [probe EXCEPT !.out = Some(keycloakToCognitoGroup(probe.group, clock))]
    /\ UNCHANGED <<backendVars, clientVars, cacheVars, req, clock, stage>>

NextGroupMapper ==
    \/ keycloakToCognitoGroup_apply
    \/ Tick

SpecGroupMapper == InitGroupMapper /\ [][NextGroupMapper]_vars

\* the first value stored under the precedence key, if any
StoredPrecedence(group) ==
    IF IsDefined(group.attributes)
    THEN FirstValue(Get(group.attributes), "precedence") ELSE Absent

IsDecimalString(str) == \E n \in 0..9 : ToString(n) = str

\* C25: keycloakToCognitoGroup returns Precedence as the integer when the
\* precedence attribute is a decimal integer string ("0" included), as
\* absent when the attribute is missing or is not parseable as an integer,
\* and never as NaN.
C25_PrecedenceParsed ==
    IsDefined(probe.out) =>
        LET stored == StoredPrecedence(probe.group)
            Precedence == Get(probe.out).Precedence
        IN /\ (IsDefined(stored) /\ IsDecimalString(Get(stored))) =>
                  /\ IsDefined(Precedence)
                  /\ ToString(Get(Precedence)) = Get(stored)
           /\ ~(IsDefined(stored) /\ IsDecimalString(Get(stored))) =>
                  Precedence = Absent
           /\ Precedence # Some(NaN)


----------------------------------------------------------------------------
(* The group a handler acts on                                              *)

\* slot s's handler takes its group lookup in this step
FindsGroup(s) ==
    /\ req[s].action \in NeedsGroupName \ {"CreateGroup"}
    /\ req[s].pc \in {"groups.find", "getRequiredGroup"}
    /\ req'[s] # req[s]

\* the ids of the groups that a step changes, or whose members it changes
GroupsTouched ==
    {id \in GroupIds :
        \/ kcGroups'[id] # kcGroups[id]
        \/ \E u \in UserIds : (<<u, id>> \in kcMembers') # (<<u, id>> \in kcMembers)}

\* C26: getRequiredGroup(name) returns a group only if its name is exactly
\* name, and returns one whenever the substring search result holds a group
\* of exactly that name; when only groups whose names contain name exist the
\* lookup fails with ResourceNotFoundException; and GetGroup, UpdateGroup,
\* DeleteGroup, ListUsersInGroup and the membership actions never act on a
\* group other than the one named.
C26_ExactGroup ==
    /\ [](\A n \in {G1, G2} :
            LET found == KcFindGroupsSearch(kcGroups, n)
                group == getRequiredGroup(kcGroups, n)
            IN /\ IsDefined(group) => Get(group).name = Some(n)
               /\ (\E k \in 1..Len(found) : found[k].name = Some(n))
                     => IsDefined(group))
    /\ [][\A s \in Slots :
            (req'[s] # req[s]) =>
               /\ FindsGroup(s) =>
                     IF GroupNamed(Get(req[s].GroupName))
                     THEN /\ IsDefined(req'[s].group)
                          /\ Get(req'[s].group).name = req[s].GroupName
                     ELSE /\ req'[s].pc = "done"
                          /\ Get(req'[s].resp).status = 400
                          /\ Get(req'[s].resp).type = "ResourceNotFoundException"
               /\ \A id \in GroupsTouched :
                     /\ IsDefined(kcGroups[id])
                     /\ Get(kcGroups[id]).name = req[s].GroupName
               /\ (req'[s].pc = "done" /\ req[s].action = "GetGroup"
                     /\ Get(req'[s].resp).status = 200) =>
                     Get(Get(Get(req'[s].resp).body).Group).GroupName
                        = req[s].GroupName]_vars

\* u1 was to be added to 'admin' while only 'admins' exists: the request has
\* been refused and u1 is in no group
C26_Witness ==
    /\ IsDone(1, "AdminAddUserToGroup")
    /\ req[1].Username = U1 /\ req[1].GroupName = Some(G1)
    /\ Get(req[1].resp).type = "ResourceNotFoundException"
    /\ req[1].writes = 0
    /\ GroupNamed(G2) /\ ~GroupNamed(G1)
    /\ KcFindGroupsSearch(kcGroups, G1) # <<>>
    /\ GroupsListedFor(kcUsers, kcGroups, kcMembers, "u1") = {}


----------------------------------------------------------------------------
(* The realm of the shared client (client.ts) under concurrent requests     *)

\* C28: under any interleaving of concurrent requests, with logins that
\* succeed or fail, every user or group backend call is made with the
\* shared client's realm set to the configured pool id, never to 'master',
\* and after a login has succeeded.
C28_NoCallInMaster ==
    [][\A s \in Slots :
          BackendCallBy(s) =>
              /\ realmName = PoolRealm
              /\ realmName # MasterRealm
              /\ isAuthenticated
              /\ IsDefined(kcAccessToken)]_vars

\* slot 1 arrived before any login had succeeded and is still awaiting its
\* own, having pointed the client at 'master'; slot 2 has logged in since
\* and is about to delete the user
C28_Witness ==
    /\ req[1].pc = "keycloakClient.auth"
    /\ req[2].action = "AdminDeleteUser"
    /\ req[2].pc \notin {"idle", "done", "keycloakClient.auth"}
    /\ IsDefined(req[2].user)
    /\ isAuthenticated
    /\ realmName = PoolRealm


----------------------------------------------------------------------------
(* Concurrent changes of one stored user                                    *)

InitRace ==
    /\ \E e \in BOOLEAN, v \in BOOLEAN :
          kcUsers = [NoUsers EXCEPT !["1"] = Some(StoredUser(e, v, <<>>))]
    /\ kcGroups = NoGroups
    /\ kcMembers = {}
    /\ nextUserId = 2
    /\ nextGroupId = 1
    /\ isAuthenticated = FALSE
    /\ kcAccessToken = Absent
    /\ InitCache
    /\ realmName = PoolRealm
    /\ clock = 1
    /\ req = [s \in Slots |-> IdleReq]
    /\ stage = 0
    /\ probe = NoProbe

RaceActions ==
    {"AdminDisableUser", "AdminEnableUser", "AdminConfirmSignUp",
     "AdminResetUserPassword", "AdminUpdateUserAttributes"}

RaceRequests ==
    {[Request(a) EXCEPT
        !.Username = U1,
        !.UserAttributes = IF a = "AdminUpdateUserAttributes"
                           THEN Some(<<Attr(Custom("dept"), "d2")>>) ELSE Absent] :
       a \in RaceActions}

RaceStep(s) ==
    \/ adminEnableUser_getRequiredUser(s)
    \/ adminEnableUser_update(s)
    \/ adminDisableUser_getRequiredUser(s)
    \/ adminDisableUser_update(s)
    \/ adminConfirmSignUp_getRequiredUser(s)
    \/ adminConfirmSignUp_update(s)
    \/ adminResetUserPassword_getRequiredUser(s)
    \/ adminResetUserPassword_update(s)
    \/ adminResetUserPassword_executeActionsEmail(s)
    \/ adminUpdateUserAttributes_getRequiredUser(s)
    \/ adminUpdateUserAttributes_update(s)

\* the requests of all slots interleaved at their awaits; the answers are
\* kept
NextRace ==
    \/ \E s \in Slots, r \in RaceRequests : Receive(s, r)
    \/ \E s \in Slots : authenticate_auth(s)
    \/ \E s \in Slots : authenticate_authFails(s)
    \/ \E s \in Slots : RaceStep(s)

SpecRace == InitRace /\ [][NextRace]_vars

\* the request of slot s has returned success
Succeeded(s) ==
    /\ req[s].pc = "done"
    /\ req[s].action \in RaceActions
    /\ Get(req[s].resp).status = 200

\* the backend user carries the change that the action makes
Reflects(action, user) ==
    CASE action = "AdminDisableUser" -> user.enabled = Some(FALSE)
      [] action = "AdminEnableUser" -> user.enabled = Some(TRUE)
      [] action = "AdminConfirmSignUp" -> user.emailVerified = Some(TRUE)
      [] action = "AdminResetUserPassword" ->
            Includes(Get(user.requiredActions), UPDATE_PASSWORD)
      [] OTHER -> Get(user.attributes)[Name("dept")] = <<"d2">>

\* C29: when two changes of the same user that do not undo each other have
\* run concurrently and both have returned success, the backend user
\* reflects both (e.g. it is disabled and carries the new attribute value),
\* whatever the interleaving of their reads and writes.
C29_NoLostUpdate ==
    \A s, t \in Slots :
        (/\ s # t
         /\ Succeeded(s) /\ Succeeded(t)
         /\ \A o \in Slots \ {s, t} : req[o].pc = "idle"
         /\ {req[s].action, req[t].action} # {"AdminEnableUser", "AdminDisableUser"})
        => /\ Reflects(req[s].action, Get(kcUsers["1"]))
           /\ Reflects(req[t].action, Get(kcUsers["1"]))


----------------------------------------------------------------------------
(* A caller that pages through a listing: it asks with a fixed Limit and    *)
(* the token of the previous answer until an answer carries no token        *)

MaxPageLimit == 3
MaxPaged == 7

PageLimits == 1..MaxPageLimit

PagedListings == {"ListUsers", "ListGroups", "ListUsersInGroup"}

\* a backend holding n items of the listing: n users, or n groups, or the
\* first group with n members
InitPaging ==
    /\ \E action \in PagedListings, N \in PageLimits, n \in 0..MaxPaged :
          /\ kcUsers = [id \in ListIds |->
                          IF action # "ListGroups" /\ IdNumber(id) <= n
                          THEN Some(ListUser(IdNumber(id))) ELSE Absent]
          /\ kcGroups = [id \in ListIds |->
                           IF \/ action = "ListGroups" /\ IdNumber(id) <= n
                              \/ action = "ListUsersInGroup" /\ id = "1"
                           THEN Some(ListGroup(IdNumber(id))) ELSE Absent]
          /\ kcMembers = IF action = "ListUsersInGroup"
                         THEN {<<ToString(k), "1">> : k \in 1..n} ELSE {}
          /\ nextUserId = n + 1
          /\ nextGroupId = n + 1
          /\ probe = [action |-> action, limit |-> N, token |-> Absent,
                      offsets |-> <<>>, names |-> <<>>, last |-> 0,
                      finished |-> FALSE]
    /\ isAuthenticated = TRUE
    /\ kcAccessToken = Some(0)
    /\ InitCache
    /\ realmName = PoolRealm
    /\ clock = 1
    /\ req = [s \in Slots |-> IdleReq]
    /\ stage = 0

\* the next request of the caller
PagingRequest ==
    [Request(probe.action) EXCEPT
        !.Limit = Some(probe.limit),
        !.GroupName = IF probe.action = "ListUsersInGroup" THEN Some(G1) ELSE Absent,
        !.PaginationToken = IF probe.action = "ListUsers" THEN probe.token ELSE Absent,
        !.NextToken = IF probe.action # "ListUsers" THEN probe.token ELSE Absent]

\* the caller asks for the next page
AskPage ==
    /\ ~probe.finished
    /\ Len(probe.offsets) <= MaxPaged
    /\ Receive(1, PagingRequest)

\* the names on the page of an answer, and its token
PageNames(r) ==
    LET body == Get(Get(r.resp).body)
    IN IF Get(r.resp).status # 200 THEN <<>>
       ELSE IF r.action = "ListGroups"
            THEN [k \in 1..Len(body.Groups) |-> Get(body.Groups[k].GroupName)]
       ELSE [k \in 1..Len(body.Users) |-> <<Get(body.Users[k].Username)>>]

PageToken(r) ==
    LET body == Get(Get(r.resp).body)
    IN IF Get(r.resp).status # 200 THEN Absent
       ELSE IF r.action = "ListUsers" THEN body.PaginationToken
       ELSE body.NextToken

\* the caller takes the answer: the page is added to what it has, and it
\* stops when the answer has no token
TakePage ==
    LET r == req[1]
        token == IF r.action = "ListUsers" THEN r.PaginationToken ELSE r.NextToken
    IN /\ r.pc = "done"
       /\ SetReq(1, IdleReq)
       /\ probe' = [probe EXCEPT
                      !.offsets = Append(@, Offset(token)),
                      !.names = @ \o PageNames(r),
                      !.last = Len(PageNames(r)),
                      !.token = PageToken(r),
                      !.finished = ~IsDefined(PageToken(r))]
       /\ UNCHANGED <<backendVars, clientVars, cacheVars, clock, stage>>

NextPaging ==
    \/ AskPage
    \/ listUsers_find(1)
    \/ listGroups_find(1)
    \/ listUsersInGroup_getRequiredGroup(1)
    \/ listUsersInGroup_listMembers(1)
    \/ TakePage

\* the caller goes on asking and every call returns
SpecPaging == InitPaging /\ [][NextPaging]_vars /\ WF_vars(NextPaging)

\* the names of the items of the listing the backend holds
PagedItems ==
    IF probe.action = "ListGroups"
    THEN {g.name[1] : g \in {Get(kcGroups[i]) : i \in {j \in DOMAIN kcGroups : IsDefined(kcGroups[j])}}}
    ELSE {<<Get(u.username)>> : u \in KcUsers(kcUsers)}

\* what the caller has so far is sound: the offsets are 0, N, 2N, ..., no
\* item has come twice, and at the end every item has come, after the first
\* page shorter than N
PagingSound ==
    LET N == probe.limit
        M == Cardinality(PagedItems)
        offsets == probe.offsets
        names == probe.names
    IN /\ \A k \in 1..Len(offsets) : offsets[k] = (k - 1) * N
       /\ Len(offsets) <= (M \div N) + 1
       /\ \A i, j \in 1..Len(names) : names[i] = names[j] => i = j
       /\ \A i \in 1..Len(names) : names[i] \in PagedItems
       /\ probe.finished =>
             /\ Len(offsets) = (M \div N) + 1
             /\ Len(names) = M
             /\ {names[i] : i \in 1..Len(names)} = PagedItems
             /\ probe.token = Absent
             /\ probe.last = M % N

\* C30: paging through ListUsers, ListGroups or ListUsersInGroup with a
\* fixed Limit N >= 1 and the token of the previous answer, on an unchanging
\* collection of M items, uses the offsets 0, N, 2N, ..., ends after
\* finitely many calls with an answer that has no token, and the pages
\* together hold every one of the M items exactly once (the last page is
\* empty when M is a multiple of N).
C30_PagingComplete ==
    /\ []PagingSound
    /\ <>(probe.finished)

\* four groups have been listed two at a time: the third page, at offset 4,
\* was empty and had no token
C30_Witness ==
    /\ probe.finished
    /\ probe.action = "ListGroups"
    /\ probe.limit = 2
    /\ probe.offsets = <<0, 2, 4>>
    /\ Len(probe.names) = 4
    /\ probe.last = 0

====
